---- MODULE Spec2Model ----
(***************************************************************************)
(* Model of the Gomel Cars backend: the express handlers of routes/auth.js *)
(* (OTP flow), routes/payouts.js, routes/cars.js and routes/bookings.js,   *)
(* the SQLite tables they act on, the optional MongoDB mirror of           *)
(* utils/mongo.js and the SSE broadcaster of utils/events.js.              *)
(*                                                                         *)
(* A handler that contains no await between its reads and its writes runs  *)
(* to completion on the single JavaScript thread (better-sqlite3 calls are *)
(* synchronous), so it is one atomic action.  Every handler is an          *)
(* operation that may be invoked with any well-signed token and any body.  *)
(***************************************************************************)
EXTENDS Integers, Sequences, FiniteSets, TLC

\* ------------------------------------------------------------------ bounds
MaxUserId == 2
MaxCarId == 2
MaxBookingId == 1
MaxPayoutId == 2
MaxOtpId == 2
MaxCode == 2
MaxTime == 2
MaxSubs == 2
MaxMessageId == 2
MaxClients == 3

\* ------------------------------------------------------- program constants
\* auth.js:188  expiresAt = Date.now() + 10 * 60 * 1000 (one clock unit here)
OtpLifetime == 1
\* auth.js:222  if (row.attempts >= 5)
MaxAttempts == 5
\* auth.js:207  body('code').isLength({ min: 4, max: 4 })
VerifyCodeLen == 4
\* auth.js:163  body('code').isLength({ min: 6, max: 6 })
FirstHandlerCodeLen == 6

\* SQL NULL / JavaScript null for ids (ids start at 1)
NULL == -1
\* an absent or empty string (city || null)
NoCity == ""

VARIABLES
  users,            \* table users: rows [id, email, mobile, full_name, role,
                    \* is_active, deleted] (the columns after the users migration)
  otp_codes,        \* table otp_codes
  cars,             \* table cars: rows [id, host_id, available, deleted, city]
  bookings,         \* table bookings
  payout_requests,  \* table payout_requests
  seq,              \* sqlite_sequence: table name -> last AUTOINCREMENT id
  carsUpdatedAt,    \* whether the cars table of the opened database has updated_at
  mongoUri,         \* process.env.MONGODB_URI is set
  mongoUp,          \* the MongoDB server answers right now
  mongoReady,       \* utils/mongo.js _ready (connection cached)
  mcars,            \* Mongo collection cars
  mbookings,        \* Mongo collection bookings
  musers,           \* Mongo collection users
  now,              \* wall clock
  wrongCodes,       \* history: email -> verifications answered 'Invalid OTP'
                    \* since the newest code for that email was issued
  last,             \* the last completed request and its response
  attachments,      \* table attachments: rows [booking_id, kind] (one row per
                    \* kind of a booking; no code writes the Mongo collection
                    \* attachments, which stays empty)
  hostReq,          \* the POST /cars/host request that is between its INSERT
                    \* and its COMMIT, if any
  sse,              \* utils/events.js: the Set clients in insertion order, the
                    \* state of each subscriber's connection, what each has
                    \* received; due and n record what was published while
                    \* each was connected and the number of broadcast calls
  mconn,            \* utils/mongo.js: the MongoClient objects created so far,
                    \* _client, _db, and the ensureConnected calls suspended
                    \* on connect()
  messages          \* table messages: rows [id, status] and its AUTOINCREMENT
                    \* counter

vars == <<users, otp_codes, cars, bookings, payout_requests, seq, carsUpdatedAt,
          mongoUri, mongoUp, mongoReady, mcars, mbookings, musers, now, wrongCodes,
          last, attachments, hostReq, sse, mconn, messages>>

dbVars == <<users, otp_codes, cars, bookings, payout_requests, seq>>
mongoVars == <<mongoReady, mcars, mbookings, musers>>
\* what only the booking handlers and POST /cars/host write
sideVars == <<attachments, hostReq, sse, mconn, messages>>
\* the environment of a handler that publishes an event
quietVars == <<carsUpdatedAt, mongoUri, mongoUp, now, wrongCodes, attachments, hostReq, mconn, messages>>
envVars == <<carsUpdatedAt, mongoUri, mongoUp, now, wrongCodes, sideVars>>

\* ------------------------------------------------------------------ inputs
UserIds == 1..MaxUserId
Roles == {"user", "admin"}
NoToken == [id |-> 0, role |-> "none"]
\* the payload jwt.verify yields: { id, role }
Tokens == [id : UserIds, role : Roles]
AnyToken == Tokens \cup {NoToken}

\* request bodies: two well-formed addresses, one in upper case, and one that
\* fails isEmail()
ValidEmails == {"a@x.co", "b@x.co", "A@X.CO"}
Emails == ValidEmails \cup {"nope"}
isEmail(e) == e \in ValidEmails

\* String(email).trim().toLowerCase()
toLowerCase(e) == IF e = "A@X.CO" THEN "a@x.co" ELSE e

\* the addresses as the handlers store them
NormEmails == {toLowerCase(e) : e \in ValidEmails}

\* the status recorded for a request whose handler rejected without answering
NoResponse == 0

\* JavaScript Number(x) for ids: Number(null) is 0
Number(x) == IF x = NULL THEN 0 ELSE x

\* a completed request: what was asked, the status and body answered, and the
\* event the handler broadcast
Resp(op, tok, arg, status, out, pub) ==
  [op |-> op, tok |-> tok, arg |-> arg, status |-> status, out |-> out, pub |-> pub]

\* requireAuth: 0 when the request passes, else the status it answers with
requireAuth(tok) == IF tok = NoToken THEN 401 ELSE 0

\* the role check left out
requireAdmin_AnyRole(tok) == requireAuth(tok)

\* requireAdmin: requireAuth, then the role check
requireAdmin(tok) ==
  IF requireAuth(tok) # 0 THEN requireAuth(tok)
  ELSE IF tok.role # "admin" THEN 403 ELSE 0

\* what broadcast(event, data) hands to every connected client; a request
\* that publishes nothing has NoEvent
broadcast_Unnamed(event, data) == <<"message", data>>
broadcast(event, data) == <<event, data>>
NoEvent == <<>>

\* no POST /cars/host request is open
NoRow == [id |-> 0, host_id |-> NULL, available |-> 0, deleted |-> 0, city |-> NoCity]
NoHostReq == [pc |-> "idle", tok |-> NoToken, row |-> NoRow]

\* ------------------------------------------------------ utils/events.js
Subs == 1..MaxSubs

NoSse ==
  [clients |-> <<>>, conn |-> [s \in Subs |-> "none"],
   received |-> [s \in Subs |-> <<>>], due |-> [s \in Subs |-> <<>>], n |-> 0]

Range(q) == {q[i] : i \in DOMAIN q}

\* clients.delete(res)
Without(q, s) == SelectSeq(q, LAMBDA x : x # s)

\* subscribers in the Set whose connection is gone while their 'close' event
\* has not been dispatched yet: a write to these may throw
Broken == {s \in Range(sse.clients) : sse.conn[s] = "broken"}

RECURSIVE WriteEach_Abort(_, _, _, _)
\* the loop with its try around the whole iteration
WriteEach_Abort(todo, e, ev, fail) ==
  IF todo = <<>> THEN e
  ELSE LET s == Head(todo) IN
       IF s \in fail THEN [e EXCEPT !.clients = Without(@, s)]
       ELSE WriteEach_Abort(Tail(todo),
              [e EXCEPT !.received[s] = IF e.conn[s] = "open" THEN Append(@, ev) ELSE @],
              ev, fail)

RECURSIVE WriteEach(_, _, _, _)
\* for (const res of clients) { try { res.write(..); res.write(..) }
\*                              catch (_) { clients.delete(res) } }
\* a write that throws leaves the event incomplete for that subscriber; a
\* write to a gone connection that does not throw reaches nobody
WriteEach(todo, e, ev, fail) ==
  IF todo = <<>> THEN e
  ELSE LET s == Head(todo) IN
       IF s \in fail
       THEN WriteEach(Tail(todo), [e EXCEPT !.clients = Without(@, s)], ev, fail)
       ELSE WriteEach(Tail(todo),
              [e EXCEPT !.received[s] = IF e.conn[s] = "open" THEN Append(@, ev) ELSE @],
              ev, fail)

\* broadcast(event, data) over the subscribers; due and n are the record of
\* what was published to whom
Publish(e, ev, fail) ==
  [WriteEach(e.clients, e, ev, fail) EXCEPT
     !.n = @ + 1,
     !.due = [s \in Subs |-> IF e.conn[s] = "open" THEN Append(e.due[s], ev) ELSE e.due[s]]]

\* a handler that never registers the response
addClient_Never(q, s) == q

\* clients.add(res)
addClient(q, s) == IF s \in Range(q) THEN q ELSE Append(q, s)

\* GET /api/events: the handshake is written, then addClient(res)
SseHandler(s) ==
  /\ sse.conn[s] = "none"
  /\ sse' = [sse EXCEPT !.conn[s] = "open", !.clients = addClient(@, s)]
  /\ UNCHANGED <<dbVars, mongoVars, carsUpdatedAt, mongoUri, mongoUp, now, wrongCodes,
                 attachments, hostReq, mconn, messages, last>>

\* the peer goes away; Node dispatches 'close' in a later turn
PeerGone(s) ==
  /\ sse.conn[s] = "open"
  /\ sse' = [sse EXCEPT !.conn[s] = "broken"]
  /\ UNCHANGED <<dbVars, mongoVars, carsUpdatedAt, mongoUri, mongoUp, now, wrongCodes,
                 attachments, hostReq, mconn, messages, last>>

\* res.on('close', () => clients.delete(res))
OnClose(s) ==
  /\ sse.conn[s] = "broken"
  /\ sse' = [sse EXCEPT !.conn[s] = "closed", !.clients = Without(@, s)]
  /\ UNCHANGED <<dbVars, mongoVars, carsUpdatedAt, mongoUri, mongoUp, now, wrongCodes,
                 attachments, hostReq, mconn, messages, last>>

\* ------------------------------------------------------ routes/messages.js
NoMessages == [rows |-> {}, seq |-> 0]

\* the environment of a handler of routes/messages.js
notMessages == <<dbVars, mongoVars, carsUpdatedAt, mongoUri, mongoUp, now, wrongCodes,
                 attachments, hostReq, sse, mconn>>

\* POST /api/messages (public): INSERT with the default status 'new'
PostMessage(valid) ==
  LET id == messages.seq + 1
      row == [id |-> id, status |-> "new"]
  IN
  IF ~valid THEN
    /\ last' = Resp("POST /messages", NoToken, NULL, 400, NULL, NoEvent)
    /\ UNCHANGED <<messages, notMessages>>
  ELSE
    /\ id <= MaxMessageId
    /\ messages' = [rows |-> messages.rows \cup {row}, seq |-> id]
    /\ last' = Resp("POST /messages", NoToken, NULL, 201, row, NoEvent)
    /\ UNCHANGED notMessages

\* GET /api/messages (admin)
GetMessages(tok) ==
  /\ last' = IF requireAdmin(tok) # 0
             THEN Resp("GET /messages", tok, NULL, requireAdmin(tok), {}, NoEvent)
             ELSE Resp("GET /messages", tok, NULL, 200, messages.rows, NoEvent)
  /\ UNCHANGED <<messages, notMessages>>

\* GET /api/messages/:id (admin)
GetMessage(tok, id) ==
  LET found == {m \in messages.rows : m.id = id} IN
  /\ last' = IF requireAdmin(tok) # 0
             THEN Resp("GET /messages/:id", tok, id, requireAdmin(tok), NULL, NoEvent)
             ELSE IF found = {}
             THEN Resp("GET /messages/:id", tok, id, 404, NULL, NoEvent)
             ELSE Resp("GET /messages/:id", tok, id, 200, CHOOSE m \in found : TRUE, NoEvent)
  /\ UNCHANGED <<messages, notMessages>>

\* POST /api/messages/:id/reply (admin): 503 without the SendGrid settings,
\* else the mail is sent and the row marked 'replied'; a failed send is a 500
ReplyMessage(tok, id, valid, configured, sent) ==
  LET op == "POST /messages/:id/reply"
      found == {m \in messages.rows : m.id = id}
  IN
  IF requireAdmin(tok) # 0 THEN
    /\ last' = Resp(op, tok, id, requireAdmin(tok), NULL, NoEvent)
    /\ UNCHANGED <<messages, notMessages>>
  ELSE IF ~valid THEN
    /\ last' = Resp(op, tok, id, 400, NULL, NoEvent)
    /\ UNCHANGED <<messages, notMessages>>
  ELSE IF found = {} THEN
    /\ last' = Resp(op, tok, id, 404, NULL, NoEvent)
    /\ UNCHANGED <<messages, notMessages>>
  ELSE IF ~configured THEN
    /\ last' = Resp(op, tok, id, 503, NULL, NoEvent)
    /\ UNCHANGED <<messages, notMessages>>
  ELSE IF ~sent THEN
    /\ last' = Resp(op, tok, id, 500, NULL, NoEvent)
    /\ UNCHANGED <<messages, notMessages>>
  ELSE
    /\ messages' = [messages EXCEPT !.rows =
                      {IF m.id = id THEN [m EXCEPT !.status = "replied"] ELSE m : m \in @}]
    /\ last' = Resp(op, tok, id, 200, TRUE, NoEvent)
    /\ UNCHANGED notMessages

\* DELETE /api/messages/:id (admin)
DeleteMessage(tok, id) ==
  LET op == "DELETE /messages/:id"
      found == {m \in messages.rows : m.id = id}
  IN
  IF requireAdmin(tok) # 0 THEN
    /\ last' = Resp(op, tok, id, requireAdmin(tok), NULL, NoEvent)
    /\ UNCHANGED <<messages, notMessages>>
  ELSE IF found = {} THEN
    /\ last' = Resp(op, tok, id, 404, NULL, NoEvent)
    /\ UNCHANGED <<messages, notMessages>>
  ELSE
    /\ messages' = [messages EXCEPT !.rows = @ \ found]
    /\ last' = Resp(op, tok, id, 200, TRUE, NoEvent)
    /\ UNCHANGED notMessages


\* ------------------------------------- utils/mongo.js: connection state
NoConn == [created |-> 0, client |-> 0, db |-> 0, connected |-> {}, pending |-> {}]

Init ==
  /\ users = {}
  /\ otp_codes = {}
  /\ cars = {}
  /\ bookings = {}
  /\ payout_requests = {}
  /\ seq = [t \in {"users", "otp_codes", "cars", "bookings", "payout_requests"} |-> 0]
  /\ carsUpdatedAt \in BOOLEAN
  /\ mongoUri \in BOOLEAN
  /\ mongoUp \in BOOLEAN
  /\ mongoReady = FALSE
  /\ mcars = {}
  /\ mbookings = {}
  /\ musers = {}
  /\ now = 0
  /\ wrongCodes = [e \in NormEmails |-> 0]
  /\ last = Resp("none", NoToken, NULL, 0, NULL, NoEvent)
  /\ attachments = {}
  /\ hostReq = NoHostReq
  /\ sse = NoSse
  /\ mconn = NoConn
  /\ messages = NoMessages

\* --------------------------------------------------------- utils/mongo.js
\* ensureConnected().ok: the cached connection, or a connection made now
ensureConnected == mongoReady \/ (mongoUri /\ mongoUp)

\* getMongoDb() returns a handle (not null)
getMongoDb == ensureConnected

\* the outcome a mirror operation hands back: { ok, skipped }, or an exception
\* leaving the function (threw)
Skipped == [ok |-> FALSE, skipped |-> TRUE, threw |-> FALSE]
Done == [ok |-> TRUE, skipped |-> FALSE, threw |-> FALSE]
Failed == [ok |-> FALSE, skipped |-> FALSE, threw |-> FALSE]
Thrown == [ok |-> FALSE, skipped |-> FALSE, threw |-> TRUE]

\* mutant: the catch block lets the exception through
Caught_Rethrown == Thrown

\* catch (e) { console.warn(...); return { ok: false } }
Caught == Failed

\* try { await <the write>; return { ok: true } } catch (e) { ... }: the write
\* throws when the server does not answer
Attempt == IF mongoUp THEN Done ELSE Caught

\* what the five mirror operations return; hasKey is whether the row handed
\* in carries the field the function tests first (email, id)
mirrorUserOutcome(hasKey) ==
  IF ~hasKey THEN Skipped ELSE IF ~ensureConnected THEN Skipped ELSE Attempt
mirrorCarOutcome(hasKey) == IF ~getMongoDb \/ ~hasKey THEN Skipped ELSE Attempt
deleteCarFromMongo == IF ~getMongoDb THEN Skipped ELSE Attempt
mirrorBookingOutcome(hasKey) == IF ~getMongoDb \/ ~hasKey THEN Skipped ELSE Attempt
deleteBookingOutcome == IF ~getMongoDb THEN Skipped ELSE Attempt

\* the document mirrorCarToMongo builds from a cars row
CarDoc(row) ==
  [sqliteId |-> Number(row.id),
   available |-> (row.available # 0),
   hostId |-> row.host_id,
   deleted |-> (row.deleted # 0),
   city |-> row.city]

\* updateOne({sqliteId}, {$set: doc}, {upsert: true}) on a collection
Upsert(coll, doc) ==
  IF \E d \in coll : d.sqliteId = doc.sqliteId
  THEN (coll \ {CHOOSE d \in coll : d.sqliteId = doc.sqliteId}) \cup {doc}
  ELSE coll \cup {doc}

\* the cars collection after mirrorCarToMongo(row): skipped when there is no
\* handle, unchanged when the write throws (caught and logged)
mirrorCarToMongo(row) ==
  IF mirrorCarOutcome(TRUE).ok THEN Upsert(mcars, CarDoc(row)) ELSE mcars

\* the document mirrorBookingToMongo builds from a bookings row
BookingDoc(row) ==
  [sqliteId |-> Number(row.id),
   userId |-> Number(row.user_id),
   carId |-> Number(row.car_id),
   pickupDate |-> row.pickup_date,
   returnDate |-> row.return_date,
   status |-> row.status]

mirrorBookingToMongo(row) ==
  IF mirrorBookingOutcome(TRUE).ok THEN Upsert(mbookings, BookingDoc(row)) ELSE mbookings

\* the bookings collection after deleteBookingFromMongo(sqliteId)
deleteBookingFromMongo(sqliteId) ==
  IF deleteBookingOutcome.ok THEN {d \in mbookings : d.sqliteId # Number(sqliteId)}
  ELSE mbookings

\* the MongoDB server goes away or comes back (environment)
MongoFlip ==
  /\ mongoUri
  /\ mongoUp' = ~mongoUp
  /\ UNCHANGED <<dbVars, mongoVars, sideVars, carsUpdatedAt, mongoUri, now, wrongCodes, last>>

\* ---------------------------------------------------------- routes/cars.js
Cities == {"Pune"}
CityOrNull == Cities \cup {NoCity}

\* POST /api/cars (admin): insert, then mirror
PostCars(tok, valid, available, hostId, city) ==
  LET id == seq["cars"] + 1
      row == [id |-> id, host_id |-> hostId,
              available |-> IF available THEN 1 ELSE 0,
              deleted |-> 0, city |-> city]
  IN
  IF requireAdmin(tok) # 0 THEN
    /\ last' = Resp("POST /cars", tok, NULL, requireAdmin(tok), NULL, NoEvent)
    /\ UNCHANGED <<dbVars, mongoVars, envVars>>
  ELSE IF ~valid THEN
    /\ last' = Resp("POST /cars", tok, NULL, 400, NULL, NoEvent)
    /\ UNCHANGED <<dbVars, mongoVars, envVars>>
  ELSE
    /\ id <= MaxCarId
    /\ cars' = cars \cup {row}
    /\ seq' = [seq EXCEPT !["cars"] = id]
    /\ mongoReady' = ensureConnected
    /\ mcars' = mirrorCarToMongo(row)
    /\ last' = Resp("POST /cars", tok, id, 201, row, NoEvent)
    /\ UNCHANGED <<users, otp_codes, bookings, payout_requests, mbookings, musers,
                   envVars>>

\* POST /api/cars/host (any authenticated user), up to the point where the
\* handler waits for MongoDB: the middleware's getMongoDb, BEGIN TRANSACTION,
\* the INSERT owned by req.user.id and, when there is a handle, the insertOne
\* it sends; without a handle COMMIT follows at once.  BEGIN throws when the
\* connection already has a transaction open.
PostCarsHost(tok, valid, available, city) ==
  LET op == "POST /cars/host"
      id == seq["cars"] + 1
      row == [id |-> id, host_id |-> tok.id,
              available |-> IF available THEN 1 ELSE 0,
              deleted |-> 0, city |-> city]
  IN
  IF requireAuth(tok) # 0 THEN
    /\ last' = Resp(op, tok, NULL, requireAuth(tok), NULL, NoEvent)
    /\ UNCHANGED <<dbVars, mongoVars, envVars>>
  ELSE IF ~valid THEN
    /\ last' = Resp(op, tok, NULL, 400, NULL, NoEvent)
    /\ mongoReady' = ensureConnected
    /\ UNCHANGED <<dbVars, mcars, mbookings, musers, envVars>>
  ELSE IF hostReq.pc # "idle" THEN
    /\ last' = Resp(op, tok, NULL, 500, NULL, NoEvent)
    /\ mongoReady' = ensureConnected
    /\ UNCHANGED <<dbVars, mcars, mbookings, musers, envVars>>
  ELSE
    /\ id <= MaxCarId
    /\ cars' = cars \cup {row}
    /\ seq' = [seq EXCEPT !["cars"] = id]
    /\ mongoReady' = ensureConnected
    /\ IF getMongoDb
       THEN /\ hostReq' = [pc |-> "insertOne", tok |-> tok, row |-> row]
            /\ last' = last
       ELSE /\ hostReq' = hostReq
            /\ last' = Resp(op, tok, id, 201, row, NoEvent)
    /\ UNCHANGED <<users, otp_codes, bookings, payout_requests, mcars, mbookings, musers,
                   carsUpdatedAt, mongoUri, mongoUp, now, wrongCodes, attachments,
                   sse, mconn, messages>>

\* the document POST /api/cars/host inserts
HostCarDoc(row) ==
  [sqliteId |-> row.id, available |-> (row.available # 0), hostId |-> row.host_id,
   deleted |-> FALSE, city |-> row.city]

\* the insertOne of the open POST /api/cars/host reaches the server, which
\* stores the document; when the server does not answer the call throws, is
\* caught, and the handler goes on to COMMIT and answer
PostCarsHostInsertOne ==
  /\ hostReq.pc = "insertOne"
  /\ IF mongoUp
     THEN /\ mcars' = mcars \cup {HostCarDoc(hostReq.row)}
          /\ hostReq' = [hostReq EXCEPT !.pc = "commit"]
          /\ last' = last
     ELSE /\ mcars' = mcars
          /\ hostReq' = NoHostReq
          /\ last' = Resp("POST /cars/host", hostReq.tok, hostReq.row.id, 201, hostReq.row,
                          NoEvent)
  /\ UNCHANGED <<dbVars, mongoReady, mbookings, musers, carsUpdatedAt, mongoUri, mongoUp,
                 now, wrongCodes, attachments, sse, mconn, messages>>

\* insertOne and the findOne after it have returned: COMMIT, then 201
PostCarsHostCommit ==
  /\ hostReq.pc = "commit"
  /\ hostReq' = NoHostReq
  /\ last' = Resp("POST /cars/host", hostReq.tok, hostReq.row.id, 201, hostReq.row, NoEvent)
  /\ UNCHANGED <<dbVars, mongoVars, carsUpdatedAt, mongoUri, mongoUp, now, wrongCodes,
                 attachments, sse, mconn, messages>>

\* PUT /api/cars/:id (owner or admin).  available is "true", "false" or
\* "absent" (not in the body).  The UPDATE names the column updated_at, which
\* db/migrate.js never creates: the statement only prepares on a database
\* whose cars table already carries that column.
PutCar(tok, carId, available) ==
  LET found == {c \in cars : c.id = carId}
      row == CHOOSE c \in cars : c.id = carId
      newAvail == IF available = "absent" THEN row.available
                  ELSE IF available = "true" THEN 1 ELSE 0
      updatedRow == [row EXCEPT !.available = newAvail]
      target == {d \in mcars : d.sqliteId = carId}
      doc == CHOOSE d \in mcars : d.sqliteId = carId
  IN
  IF requireAuth(tok) # 0 THEN
    /\ last' = Resp("PUT /cars/:id", tok, carId, requireAuth(tok), NULL, NoEvent)
    /\ UNCHANGED <<dbVars, mongoVars, envVars>>
  ELSE IF found = {} THEN
    /\ last' = Resp("PUT /cars/:id", tok, carId, 404, NULL, NoEvent)
    /\ UNCHANGED <<dbVars, mongoVars, envVars>>
  ELSE IF row.host_id # tok.id /\ tok.role # "admin" THEN
    /\ last' = Resp("PUT /cars/:id", tok, carId, 403, NULL, NoEvent)
    /\ UNCHANGED <<dbVars, mongoVars, envVars>>
  ELSE IF ~carsUpdatedAt THEN
    /\ last' = Resp("PUT /cars/:id", tok, carId, 500, NULL, NoEvent)
    /\ UNCHANGED <<dbVars, mongoVars, envVars>>
  ELSE
    /\ cars' = (cars \ {row}) \cup {updatedRow}
    /\ mongoReady' = IF mongoUri THEN ensureConnected ELSE mongoReady
    /\ mcars' = IF mongoUri /\ getMongoDb /\ mongoUp /\ target # {}
                THEN (mcars \ {doc}) \cup {[doc EXCEPT !.available = (newAvail = 1)]}
                ELSE mcars
    /\ last' = Resp("PUT /cars/:id", tok, carId, 200, updatedRow, NoEvent)
    /\ UNCHANGED <<users, otp_codes, bookings, payout_requests, seq, mbookings, musers,
                   envVars>>

\* PUT /api/cars/:id of the other implementation of routes/cars.js that the
\* repository carries (admin only): an UPDATE that names only columns of
\* db/migrate.js, then mirrorCarToMongo
PutCarAdmin(tok, carId, available) ==
  LET found == {c \in cars : c.id = carId}
      row == CHOOSE c \in cars : c.id = carId
      out == [row EXCEPT !.available = IF available = "absent" THEN @
                                       ELSE IF available = "true" THEN 1 ELSE 0]
  IN
  IF requireAdmin(tok) # 0 THEN
    /\ last' = Resp("PUT /cars/:id", tok, carId, requireAdmin(tok), NULL, NoEvent)
    /\ UNCHANGED <<dbVars, mongoVars, envVars>>
  ELSE IF found = {} THEN
    /\ last' = Resp("PUT /cars/:id", tok, carId, 404, NULL, NoEvent)
    /\ UNCHANGED <<dbVars, mongoVars, envVars>>
  ELSE
    /\ cars' = (cars \ {row}) \cup {out}
    /\ mongoReady' = ensureConnected
    /\ mcars' = mirrorCarToMongo(out)
    /\ last' = Resp("PUT /cars/:id", tok, carId, 200, out, NoEvent)
    /\ UNCHANGED <<users, otp_codes, bookings, payout_requests, seq, mbookings, musers,
                   envVars>>

\* DELETE /api/cars/:id (owner or admin): soft delete, mirrored
DeleteCar(tok, carId) ==
  LET found == {c \in cars : c.id = carId}
      row == CHOOSE c \in cars : c.id = carId
      isAdmin == tok.role = "admin"
      isOwner == row.host_id # NULL /\ Number(row.host_id) = Number(tok.id)
  IN
  IF requireAuth(tok) # 0 THEN
    /\ last' = Resp("DELETE /cars/:id", tok, carId, requireAuth(tok), NULL, NoEvent)
    /\ UNCHANGED <<dbVars, mongoVars, envVars>>
  ELSE IF found = {} THEN
    /\ last' = Resp("DELETE /cars/:id", tok, carId, 404, NULL, NoEvent)
    /\ UNCHANGED <<dbVars, mongoVars, envVars>>
  ELSE IF ~isAdmin /\ ~isOwner THEN
    /\ last' = Resp("DELETE /cars/:id", tok, carId, 403, NULL, NoEvent)
    /\ UNCHANGED <<dbVars, mongoVars, envVars>>
  ELSE
    /\ cars' = (cars \ {row}) \cup {[row EXCEPT !.deleted = 1]}
    /\ mongoReady' = ensureConnected
    /\ mcars' = mirrorCarToMongo([row EXCEPT !.deleted = 1])
    /\ last' = Resp("DELETE /cars/:id", tok, carId, 200, NULL, NoEvent)
    /\ UNCHANGED <<users, otp_codes, bookings, payout_requests, seq, mbookings, musers,
                   envVars>>

\* ------------------------------------------------------------ date strings
\* Dates are opaque strings (body('pickupDate').isString()); SQLite TEXT and
\* MongoDB strings both compare byte by byte.  A string is a sequence of digits.
RECURSIVE LexLess(_, _)
LexLess(a, b) ==
  IF a = <<>> THEN b # <<>>
  ELSE IF b = <<>> THEN FALSE
  ELSE IF a[1] # b[1] THEN a[1] < b[1]
  ELSE LexLess(Tail(a), Tail(b))

\* a <= b on strings
LexLeq(a, b) == a = b \/ LexLess(a, b)

\* the day strings "1", "10", "2": as strings "1" < "10" < "2"
DateStrings == {<<1>>, <<1, 0>>, <<2>>}
EmptyString == <<>>

\* ------------------------------------------------------ routes/bookings.js
\* POST /api/bookings: the car must exist and be available; insert, mirror,
\* broadcast booking_created
\* the lookup treating a missing car as an available one
CarById_Assumed(carId) ==
  IF \E c \in cars : c.id = carId THEN {c \in cars : c.id = carId}
  ELSE {[NoRow EXCEPT !.id = carId, !.available = 1]}

\* SELECT id, available FROM cars WHERE id = ? (no filter on deleted)
CarById(carId) == {c \in cars : c.id = carId}

PostBookingsWith(tok, valid, carId, pickup, ret, kinds) ==
  LET id == seq["bookings"] + 1
      found == CarById(carId)
      carRow == CHOOSE c \in found : TRUE
      row == [id |-> id, user_id |-> tok.id, car_id |-> carId,
              pickup_date |-> pickup, return_date |-> ret, status |-> "confirmed"]
  IN
  IF requireAuth(tok) # 0 THEN
    /\ last' = Resp("POST /bookings", tok, carId, requireAuth(tok), NULL, NoEvent)
    /\ UNCHANGED <<dbVars, mongoVars, envVars>>
  ELSE IF ~valid \/ carId < 1 THEN
    /\ last' = Resp("POST /bookings", tok, carId, 400, NULL, NoEvent)
    /\ UNCHANGED <<dbVars, mongoVars, envVars>>
  ELSE IF found = {} THEN
    /\ last' = Resp("POST /bookings", tok, carId, 400, NULL, NoEvent)
    /\ UNCHANGED <<dbVars, mongoVars, envVars>>
  ELSE IF carRow.available = 0 THEN
    /\ last' = Resp("POST /bookings", tok, carId, 400, NULL, NoEvent)
    /\ UNCHANGED <<dbVars, mongoVars, envVars>>
  ELSE
    /\ id <= MaxBookingId
    /\ bookings' = bookings \cup {row}
    /\ seq' = [seq EXCEPT !["bookings"] = id]
    /\ mongoReady' = ensureConnected
    /\ mbookings' = mirrorBookingToMongo(row)
    /\ attachments' = attachments \cup {[booking_id |-> id, kind |-> k] : k \in kinds}
    /\ last' = Resp("POST /bookings", tok, carId, 201, row, broadcast("booking_created", id))
    /\ \E fail \in SUBSET Broken : sse' = Publish(sse, broadcast("booking_created", id), fail)
    /\ UNCHANGED <<users, otp_codes, cars, payout_requests, mcars, musers,
                   carsUpdatedAt, mongoUri, mongoUp, now, wrongCodes, hostReq, mconn, messages>>

\* a booking whose verification carries no attachmentsData
PostBookings(tok, valid, carId, pickup, ret) ==
  PostBookingsWith(tok, valid, carId, pickup, ret, {})

\* verification.attachmentsData: the kinds for which a data URL was saved
Kinds == {"idFront", "idBack", "license"}

\* mutant: the transaction deletes the booking only
AttachmentsAfterDelete_Kept(id) == attachments

\* DELETE FROM attachments WHERE booking_id = ?
AttachmentsAfterDelete(id) == {a \in attachments : a.booking_id # id}

\* DELETE /api/bookings/:id (admin): db.transaction deletes the attachments
\* and the booking, then deleteBookingFromMongo.  A payout request that
\* references the booking makes the DELETE throw (foreign keys are enforced by
\* better-sqlite3): the transaction rolls back and the handler rejects.
DeleteBooking(tok, id) ==
  LET op == "DELETE /bookings/:id"
      found == {b \in bookings : b.id = id}
  IN
  IF requireAdmin(tok) # 0 THEN
    /\ last' = Resp(op, tok, id, requireAdmin(tok), NULL, NoEvent)
    /\ UNCHANGED <<dbVars, mongoVars, envVars>>
  ELSE IF found = {} THEN
    /\ last' = Resp(op, tok, id, 404, NULL, NoEvent)
    /\ UNCHANGED <<dbVars, mongoVars, envVars>>
  ELSE IF \E pr \in payout_requests : pr.booking_id = id THEN
    /\ last' = Resp(op, tok, id, NoResponse, NULL, NoEvent)
    /\ UNCHANGED <<dbVars, mongoVars, envVars>>
  ELSE
    /\ attachments' = AttachmentsAfterDelete(id)
    /\ UNCHANGED <<sse, mconn, messages>>
    /\ bookings' = bookings \ found
    /\ mongoReady' = ensureConnected
    /\ mbookings' = deleteBookingFromMongo(id)
    /\ last' = Resp(op, tok, id, 200, NULL, NoEvent)
    /\ UNCHANGED <<users, otp_codes, cars, payout_requests, seq, mcars, musers,
                   carsUpdatedAt, mongoUri, mongoUp, now, wrongCodes, hostReq>>

\* -------------------------------------------- GET /api/cars/availability
\* the CASE expression of the SQLite query: available_for_range of one car
SqlAvailableForRange(c, pickup, ret) ==
  IF c.available = 0 THEN 0
  ELSE IF \E b \in bookings :
            /\ b.car_id = c.id
            /\ b.status # "cancelled"
            /\ ~(LexLeq(b.return_date, pickup) \/ LexLeq(ret, b.pickup_date))
       THEN 0
  ELSE 1

\* the SQLite fallback: one pair per non-deleted car (of the city, if given)
SqliteAvailability(pickup, ret, city) ==
  {[id |-> c.id, availableForRange |-> (SqlAvailableForRange(c, pickup, ret) # 0)] :
     c \in {x \in cars : x.deleted = 0 /\ (city = NoCity \/ x.city = city)}}

\* mutant: the findOne ignores the status of the booking
MongoConflict_AnyStatus(d, pickup, ret) ==
  \E b \in mbookings :
    /\ b.carId = d.sqliteId
    /\ ~LexLeq(b.returnDate, pickup)
    /\ ~LexLeq(ret, b.pickupDate)

\* the findOne on the bookings collection: a conflicting booking exists
MongoConflict(d, pickup, ret) ==
  \E b \in mbookings :
    /\ b.carId = d.sqliteId
    /\ b.status # "cancelled"
    /\ ~LexLeq(b.returnDate, pickup)
    /\ ~LexLeq(ret, b.pickupDate)

\* the secondary branch: one pair per non-deleted car document
MongoAvailability(pickup, ret, city) ==
  {[id |-> d.sqliteId,
    availableForRange |-> (d.available /\ ~MongoConflict(d, pickup, ret))] :
     d \in {x \in mcars : ~x.deleted /\ (city = NoCity \/ x.city = city)}}

\* the status of a request whose handler threw after an await: express 4
\* sends nothing
GetAvailability(pickup, ret, city) ==
  LET q == [pickup |-> pickup, return |-> ret, city |-> city] IN
  IF pickup = EmptyString \/ ret = EmptyString THEN
    /\ last' = Resp("GET /cars/availability", NoToken, q, 400, {}, NoEvent)
    /\ UNCHANGED <<dbVars, mongoVars, envVars>>
  ELSE IF getMongoDb THEN
    /\ mongoReady' = TRUE
    /\ last' = IF mongoUp
               THEN Resp("GET /cars/availability", NoToken, q, 200,
                         MongoAvailability(pickup, ret, city), NoEvent)
               ELSE Resp("GET /cars/availability", NoToken, q, NoResponse, {}, NoEvent)
    /\ UNCHANGED <<dbVars, mcars, mbookings, musers, envVars>>
  ELSE
    /\ last' = Resp("GET /cars/availability", NoToken, q, 200,
                    SqliteAvailability(pickup, ret, city), NoEvent)
    /\ UNCHANGED <<dbVars, mongoVars, envVars>>

\* ------------------------------------------------- read endpoints of cars
\* toCar(row): the fields of a listed car the model keeps
toCar(row) == [id |-> row.id, available |-> (row.available # 0)]

\* the shape the Mongo branches of GET /, /mine and /:id give a document
CarFromDoc(d) == [id |-> d.sqliteId, available |-> d.available]

\* $or: [{deleted: {$exists: false}}, {deleted: false}]
NotDeletedDoc(d) == ~d.deleted

\* WHERE (c.deleted IS NULL OR c.deleted = 0)
NotDeletedRow(c) == c.deleted = 0

\* the SQLite queries of the four handlers
SqliteCars == {toCar(c) : c \in {r \in cars : NotDeletedRow(r)}}
SqliteCarsMine(tok) ==
  {toCar(c) : c \in {r \in cars : NotDeletedRow(r) /\ r.host_id = tok.id}}
SqliteCar(id) == {toCar(c) : c \in {r \in cars : NotDeletedRow(r) /\ r.id = id}}

\* GET /api/cars: the aggregate on the cars collection, and the SQLite query
\* when there is no handle or the aggregate throws
GetCars ==
  LET op == "GET /cars" IN
  /\ mongoReady' = ensureConnected
  /\ last' = IF getMongoDb /\ mongoUp
             THEN Resp(op, NoToken, NULL, 200,
                       {CarFromDoc(d) : d \in {x \in mcars : NotDeletedDoc(x)}}, NoEvent)
             ELSE Resp(op, NoToken, NULL, 200, SqliteCars, NoEvent)
  /\ UNCHANGED <<dbVars, mcars, mbookings, musers, envVars>>

\* GET /api/cars/admin (admin): find({}) answers the documents as they are;
\* a throwing find is answered by the outer catch
GetCarsAdmin(tok) ==
  LET op == "GET /cars/admin" IN
  IF requireAdmin(tok) # 0 THEN
    /\ last' = Resp(op, tok, NULL, requireAdmin(tok), {}, NoEvent)
    /\ UNCHANGED <<dbVars, mongoVars, envVars>>
  ELSE
    /\ mongoReady' = ensureConnected
    /\ last' = IF getMongoDb /\ mongoUp THEN Resp(op, tok, NULL, 200, mcars, NoEvent)
               ELSE IF getMongoDb THEN Resp(op, tok, NULL, 500, {}, NoEvent)
               ELSE Resp(op, tok, NULL, 200, SqliteCars, NoEvent)
    /\ UNCHANGED <<dbVars, mcars, mbookings, musers, envVars>>

\* GET /api/cars/mine
GetCarsMine(tok) ==
  LET op == "GET /cars/mine" IN
  IF requireAuth(tok) # 0 THEN
    /\ last' = Resp(op, tok, NULL, requireAuth(tok), {}, NoEvent)
    /\ UNCHANGED <<dbVars, mongoVars, envVars>>
  ELSE
    /\ mongoReady' = ensureConnected
    /\ last' = IF getMongoDb /\ mongoUp
               THEN Resp(op, tok, NULL, 200,
                         {CarFromDoc(d) : d \in {x \in mcars : x.hostId = tok.id
                                                           /\ NotDeletedDoc(x)}}, NoEvent)
               ELSE Resp(op, tok, NULL, 200, SqliteCarsMine(tok), NoEvent)
    /\ UNCHANGED <<dbVars, mcars, mbookings, musers, envVars>>

\* GET /api/cars/:id: the document when the aggregate finds one, else the
\* SQLite row, else 404
GetCar(id) ==
  LET op == "GET /cars/:id"
      result == {d \in mcars : d.sqliteId = Number(id) /\ NotDeletedDoc(d)}
  IN
  /\ mongoReady' = ensureConnected
  /\ last' = IF getMongoDb /\ mongoUp /\ result # {}
             THEN Resp(op, NoToken, id, 200, {CarFromDoc(d) : d \in result}, NoEvent)
             ELSE IF SqliteCar(id) = {} THEN Resp(op, NoToken, id, 404, {}, NoEvent)
             ELSE Resp(op, NoToken, id, 200, SqliteCar(id), NoEvent)
  /\ UNCHANGED <<dbVars, mcars, mbookings, musers, envVars>>

\* ---------------------------------------------- read endpoints of bookings
\* toBooking(row) and the object the Mongo branches build from a document
toBooking(row) == [id |-> row.id, userId |-> row.user_id, carId |-> row.car_id]
BookingFromDoc(b) == [id |-> b.sqliteId, userId |-> b.userId, carId |-> b.carId]

SqliteBookingsMe(tok) == {toBooking(b) : b \in {r \in bookings : r.user_id = tok.id}}

\* GET /api/bookings/me: no try/catch; a throwing find rejects the handler's
\* promise and the request is never answered
GetBookingsMe(tok) ==
  LET op == "GET /bookings/me" IN
  IF requireAuth(tok) # 0 THEN
    /\ last' = Resp(op, tok, NULL, requireAuth(tok), {}, NoEvent)
    /\ UNCHANGED <<dbVars, mongoVars, envVars>>
  ELSE
    /\ mongoReady' = ensureConnected
    /\ last' = IF getMongoDb /\ mongoUp
               THEN Resp(op, tok, NULL, 200,
                         {BookingFromDoc(b) : b \in {x \in mbookings : x.userId = tok.id}},
                         NoEvent)
               ELSE IF getMongoDb THEN Resp(op, tok, NULL, NoResponse, {}, NoEvent)
               ELSE Resp(op, tok, NULL, 200, SqliteBookingsMe(tok), NoEvent)
    /\ UNCHANGED <<dbVars, mcars, mbookings, musers, envVars>>

\* GET /api/bookings (admin): every document of the bookings collection, or
\* every row of the table
GetBookings(tok) ==
  LET op == "GET /bookings" IN
  IF requireAdmin(tok) # 0 THEN
    /\ last' = Resp(op, tok, NULL, requireAdmin(tok), {}, NoEvent)
    /\ UNCHANGED <<dbVars, mongoVars, envVars>>
  ELSE
    /\ mongoReady' = ensureConnected
    /\ last' = IF getMongoDb /\ mongoUp
               THEN Resp(op, tok, NULL, 200, {BookingFromDoc(b) : b \in mbookings}, NoEvent)
               ELSE IF getMongoDb THEN Resp(op, tok, NULL, NoResponse, {}, NoEvent)
               ELSE Resp(op, tok, NULL, 200, {toBooking(b) : b \in bookings}, NoEvent)
    /\ UNCHANGED <<dbVars, mcars, mbookings, musers, envVars>>

\* ------------------------------------------------------- routes/payouts.js
\* mutant: the pending check is dropped
ExistingPending_Dropped(bookingId) == {}

\* SELECT id FROM payout_requests WHERE booking_id = ? AND status = 'pending'
ExistingPending(bookingId) ==
  {p \in payout_requests : p.booking_id = bookingId /\ p.status = "pending"}

\* mutant: any authenticated requester passes the ownership check
OwnsBooking_Anyone(host_id, tok) == TRUE

\* Number(row.host_id) !== Number(req.user.id) is the 403; this is its negation
OwnsBooking(host_id, tok) == Number(host_id) = Number(tok.id)

\* mutant: approve and reject act on a request of any status
IsPending_Always(pr) == TRUE

\* pr.status !== 'pending' is the 400 of approve and reject; this is its negation
IsPending(pr) == pr.status = "pending"

\* POST /api/payouts/request.  No await separates the ownership check, the
\* pending check and the INSERT.
PayoutRequest(tok, bookingId, amount) ==
  LET id == seq["payout_requests"] + 1
      found == {b \in bookings : b.id = bookingId}
      b == CHOOSE x \in bookings : x.id = bookingId
      car == {c \in cars : c.id = b.car_id}
      \* LEFT JOIN cars: host_id is NULL when the car row is missing
      host_id == IF car = {} THEN NULL ELSE (CHOOSE c \in car : TRUE).host_id
      existing == ExistingPending(bookingId)
      pr == [id |-> id, booking_id |-> bookingId, host_id |-> tok.id,
             amount |-> amount, status |-> "pending"]
      q == [bookingId |-> bookingId, amount |-> amount]
  IN
  IF requireAuth(tok) # 0 THEN
    /\ last' = Resp("POST /payouts/request", tok, q, requireAuth(tok), NULL, NoEvent)
    /\ UNCHANGED <<dbVars, mongoVars, envVars>>
  ELSE IF bookingId < 1 \/ amount < 1 THEN
    /\ last' = Resp("POST /payouts/request", tok, q, 400, NULL, NoEvent)
    /\ UNCHANGED <<dbVars, mongoVars, envVars>>
  ELSE IF found = {} THEN
    /\ last' = Resp("POST /payouts/request", tok, q, 404, NULL, NoEvent)
    /\ UNCHANGED <<dbVars, mongoVars, envVars>>
  ELSE IF ~OwnsBooking(host_id, tok) THEN
    /\ last' = Resp("POST /payouts/request", tok, q, 403, NULL, NoEvent)
    /\ UNCHANGED <<dbVars, mongoVars, envVars>>
  ELSE IF existing # {} THEN
    /\ last' = Resp("POST /payouts/request", tok, q, 409, NULL, NoEvent)
    /\ UNCHANGED <<dbVars, mongoVars, envVars>>
  ELSE
    /\ id <= MaxPayoutId
    /\ payout_requests' = payout_requests \cup {pr}
    /\ seq' = [seq EXCEPT !["payout_requests"] = id]
    /\ last' = Resp("POST /payouts/request", tok, q, 201, pr, broadcast("payout_request_created", id))
    /\ \E fail \in SUBSET Broken :
         sse' = Publish(sse, broadcast("payout_request_created", id), fail)
    /\ UNCHANGED <<users, otp_codes, cars, bookings, mongoVars, quietVars>>

\* the shared shape of approve and reject: load, require pending, UPDATE
PayoutDecide(op, tok, id, newStatus) ==
  LET found == {p \in payout_requests : p.id = id}
      pr == CHOOSE p \in payout_requests : p.id = id
      out == [pr EXCEPT !.status = newStatus]
  IN
  IF requireAdmin(tok) # 0 THEN
    /\ last' = Resp(op, tok, id, requireAdmin(tok), NULL, NoEvent)
    /\ UNCHANGED <<dbVars, mongoVars, envVars>>
  ELSE IF found = {} THEN
    /\ last' = Resp(op, tok, id, 404, NULL, NoEvent)
    /\ UNCHANGED <<dbVars, mongoVars, envVars>>
  ELSE IF ~IsPending(pr) THEN
    /\ last' = Resp(op, tok, id, 400, NULL, NoEvent)
    /\ UNCHANGED <<dbVars, mongoVars, envVars>>
  ELSE
    /\ payout_requests' = (payout_requests \ {pr}) \cup {out}
    /\ last' = Resp(op, tok, id, 200, out, broadcast("payout_request_updated", id))
    /\ \E fail \in SUBSET Broken :
         sse' = Publish(sse, broadcast("payout_request_updated", id), fail)
    /\ UNCHANGED <<users, otp_codes, cars, bookings, seq, mongoVars, quietVars>>

\* POST /api/payouts/:id/approve (admin)
PayoutApprove(tok, id) == PayoutDecide("POST /payouts/:id/approve", tok, id, "approved")

\* POST /api/payouts/:id/reject (admin)
PayoutReject(tok, id) == PayoutDecide("POST /payouts/:id/reject", tok, id, "rejected")

\* ---------------------------------------------------------- routes/auth.js
\* a code is a string of digits: its length and which of the random values
Code(len, n) == [len |-> len, n |-> n]
\* auth.js:82  genOtp(): Math.floor(1000 + Math.random() * 9000)
GenOtpLen == 4
\* auth.js:128  Math.floor(100000 + Math.random() * 900000)
RequestCodeLen == 6
CodeLens == {GenOtpLen, RequestCodeLen}
Codes == [len : CodeLens, n : 1..MaxCode]

\* body('purpose').isIn(['login', 'signup', 'reset']); "other" fails it
Purposes == {"login", "signup", "reset"}
PurposeInputs == Purposes \cup {"other"}

\* a mobile is a string of characters; Dash stands for any non-digit
Dash == 10
IsDigit(ch) == ch \in 0..9
NoMobile == <<>>
NoName == ""
\* a field a document does not carry, or a request body leaves out
Absent == "absent"

\* normalizeMobile: strip non-digits; null (NoMobile) when nothing is left
normalizeMobile(m) == SelectSeq(m, IsDigit)

\* toUserDTO
toUserDTO(row) ==
  [id |-> row.id, email |-> row.email, fullName |-> row.full_name, mobile |-> row.mobile]

\* SELECT ... FROM users WHERE email = ?
UserByEmail(e) == {u \in users : u.email = e}

\* mongoUserExists(email): false without a connection or when the query throws
mongoUserExists(e) ==
  ensureConnected /\ mongoUp /\ \E d \in musers : d.email = toLowerCase(e)

\* getMongoUser(email): the set holding the document, empty for null
getMongoUser(e) ==
  IF ensureConnected /\ mongoUp THEN {d \in musers : d.email = toLowerCase(e)} ELSE {}

\* mongoMobileTaken(mobile, excludeEmail): excludeEmail is NoName when absent
mongoMobileTaken(mobile, excludeEmail) ==
  /\ ensureConnected /\ mongoUp
  /\ normalizeMobile(mobile) # NoMobile
  /\ \E d \in musers :
       /\ d.mobile = normalizeMobile(mobile)
       /\ (excludeEmail # NoName => d.email # toLowerCase(excludeEmail))

\* the users collection after mirrorUserToMongo(userRow)
mirrorUserToMongo(userRow) ==
  LET email == toLowerCase(userRow.email)
      existing == {d \in musers : d.email = email}
      old == CHOOSE d \in musers : d.email = email
      set == [old EXCEPT !.fullName = IF userRow.full_name # NoName
                                      THEN userRow.full_name ELSE @,
                         !.mobile = normalizeMobile(userRow.mobile)]
      doc == [email |-> email, fullName |-> userRow.full_name,
              mobile |-> normalizeMobile(userRow.mobile), sqliteId |-> userRow.id,
              role |-> Absent, deleted |-> FALSE]
  IN
  IF ~mirrorUserOutcome(TRUE).ok THEN musers
  ELSE IF existing # {} THEN (musers \ {old}) \cup {set}
  ELSE musers \cup {doc}

\* history: one more wrong code for the email while a code of it is live
CountWrong(normEmail) ==
  IF \E r \in otp_codes : r.email = normEmail /\ r.consumed = 0 /\ r.expires_at >= now
  THEN [wrongCodes EXCEPT ![normEmail] = IF @ < MaxAttempts THEN @ + 1 ELSE @]
  ELSE wrongCodes

\* history: a new code was issued for the email
Issued(normEmail) == [wrongCodes EXCEPT ![normEmail] = 0]

\* a new otp_codes row: attempts and consumed take their DEFAULT 0
OtpRow(id, email, code, purpose) ==
  [id |-> id, email |-> email, code |-> code, purpose |-> purpose,
   expires_at |-> now + OtpLifetime, attempts |-> 0, consumed |-> 0]

\* POST /api/auth/login-password: a 6-digit login code for a registered email
LoginPassword(email, n) ==
  LET normEmail == toLowerCase(email)
      id == seq["otp_codes"] + 1
      row == OtpRow(id, normEmail, Code(RequestCodeLen, n), "login")
  IN
  IF ~isEmail(email) THEN
    /\ last' = Resp("POST /auth/login-password", NoToken, email, 400, NULL, NoEvent)
    /\ UNCHANGED <<dbVars, mongoVars, envVars>>
  ELSE IF UserByEmail(normEmail) = {} THEN
    /\ last' = Resp("POST /auth/login-password", NoToken, email, 404, NULL, NoEvent)
    /\ UNCHANGED <<dbVars, mongoVars, envVars>>
  ELSE
    /\ id <= MaxOtpId
    /\ otp_codes' = otp_codes \cup {row}
    /\ seq' = [seq EXCEPT !["otp_codes"] = id]
    /\ wrongCodes' = Issued(normEmail)
    /\ last' = Resp("POST /auth/login-password", NoToken, email, 200, "pendingOtp", NoEvent)
    /\ UNCHANGED <<users, cars, bookings, payout_requests, mongoVars,
                   sideVars, carsUpdatedAt, mongoUri, mongoUp, now>>

\* POST /api/auth/request-otp: a 6-digit code replacing the codes of the same
\* email and purpose.  The CHECK on otp_codes.purpose refuses 'reset': the
\* INSERT throws and the catch answers 500 (the DELETE before it removed
\* nothing, no row has that purpose).
RequestOtp(email, purpose, n) ==
  LET normEmail == toLowerCase(email)
      id == seq["otp_codes"] + 1
      row == OtpRow(id, normEmail, Code(RequestCodeLen, n), purpose)
      q == [email |-> email, purpose |-> purpose]
      kept == {r \in otp_codes : ~(r.email = normEmail /\ r.purpose = purpose)}
  IN
  IF ~isEmail(email) \/ purpose \notin Purposes THEN
    /\ last' = Resp("POST /auth/request-otp", NoToken, q, 400, NULL, NoEvent)
    /\ UNCHANGED <<dbVars, mongoVars, envVars>>
  ELSE IF purpose = "login" /\ UserByEmail(normEmail) = {} /\ ~mongoUserExists(normEmail) THEN
    /\ last' = Resp("POST /auth/request-otp", NoToken, q, 404, NULL, NoEvent)
    /\ mongoReady' = ensureConnected
    /\ UNCHANGED <<dbVars, mcars, mbookings, musers, envVars>>
  ELSE IF purpose = "signup" /\ UserByEmail(normEmail) # {} THEN
    /\ last' = Resp("POST /auth/request-otp", NoToken, q, 400, NULL, NoEvent)
    /\ UNCHANGED <<dbVars, mongoVars, envVars>>
  ELSE IF purpose = "reset" THEN
    /\ last' = Resp("POST /auth/request-otp", NoToken, q, 500, NULL, NoEvent)
    /\ UNCHANGED <<dbVars, mongoVars, envVars>>
  ELSE
    /\ id <= MaxOtpId
    /\ otp_codes' = kept \cup {row}
    /\ seq' = [seq EXCEPT !["otp_codes"] = id]
    /\ mongoReady' = IF purpose = "login" THEN ensureConnected ELSE mongoReady
    /\ wrongCodes' = Issued(normEmail)
    /\ last' = Resp("POST /auth/request-otp", NoToken, q, 200, "OTP sent successfully", NoEvent)
    /\ UNCHANGED <<users, cars, bookings, payout_requests, mcars, mbookings, musers,
                   sideVars, carsUpdatedAt, mongoUri, mongoUp, now>>

\* POST /api/auth/verify-otp, the handler registered first (auth.js:159-202):
\* it validates a 6-character code and a purpose, then issues a new 4-digit
\* code (genOtp) without removing older ones, and always answers.
VerifyOtpFirst(email, code, purpose, n) ==
  LET normEmail == toLowerCase(email)
      id == seq["otp_codes"] + 1
      storedPurpose == IF purpose = "reset" THEN "login" ELSE purpose
      row == OtpRow(id, normEmail, Code(GenOtpLen, n), storedPurpose)
      q == [email |-> email, code |-> code, purpose |-> purpose]
  IN
  IF ~isEmail(email) \/ code.len # FirstHandlerCodeLen \/ purpose \notin Purposes THEN
    /\ last' = Resp("POST /auth/verify-otp #1", NoToken, q, 400, "validation", NoEvent)
    /\ UNCHANGED <<dbVars, mongoVars, envVars>>
  ELSE IF purpose = "login" /\ UserByEmail(normEmail) = {} /\ ~mongoUserExists(normEmail) THEN
    /\ last' = Resp("POST /auth/verify-otp #1", NoToken, q, 404, "Email not registered", NoEvent)
    /\ mongoReady' = ensureConnected
    /\ UNCHANGED <<dbVars, mcars, mbookings, musers, envVars>>
  ELSE IF purpose = "signup" /\ UserByEmail(normEmail) # {} THEN
    /\ last' = Resp("POST /auth/verify-otp #1", NoToken, q, 409, "Email already registered", NoEvent)
    /\ UNCHANGED <<dbVars, mongoVars, envVars>>
  ELSE
    /\ id <= MaxOtpId
    /\ otp_codes' = otp_codes \cup {row}
    /\ seq' = [seq EXCEPT !["otp_codes"] = id]
    /\ mongoReady' = IF purpose = "login" THEN ensureConnected ELSE mongoReady
    /\ wrongCodes' = Issued(normEmail)
    /\ last' = Resp("POST /auth/verify-otp #1", NoToken, q, 200, "OTP sent successfully", NoEvent)
    /\ UNCHANGED <<users, cars, bookings, payout_requests, mcars, mbookings, musers,
                   sideVars, carsUpdatedAt, mongoUri, mongoUp, now>>

\* mutant: a code never expires
Expired_Never(row) == FALSE

\* row.expires_at < nowIso (toISOString() strings order as their instants)
Expired(row) == row.expires_at < now

\* row.attempts >= 5
TooManyAttempts(row) == row.attempts >= MaxAttempts

\* UPDATE otp_codes SET consumed = 1, attempts = attempts + 1 WHERE id = ?
Consume(row) == [row EXCEPT !.consumed = 1, !.attempts = @ + 1]

\* SELECT * FROM otp_codes WHERE email = ? AND code = ? AND consumed = 0
Matching(normEmail, code) ==
  {r \in otp_codes : r.email = normEmail /\ r.code = code /\ r.consumed = 0}

\* ... ORDER BY id DESC, first row
Newest(rows) == CHOOSE r \in rows : \A o \in rows : o.id <= r.id

\* the tail of the second handler: mirror the user, read it back, sign a token
VerifyFinish(q, otpAfter, usersAfter, user) ==
  LET after == mirrorUserToMongo(user)
      m == IF ensureConnected /\ mongoUp
           THEN {d \in after : d.email = toLowerCase(user.email)} ELSE {}
      doc == CHOOSE d \in m : TRUE
      dto == IF m # {}
             THEN [id |-> user.id, email |-> doc.email, fullName |-> doc.fullName,
                   mobile |-> doc.mobile]
             ELSE toUserDTO(user)
      token == [id |-> user.id, role |-> "user"]
  IN
  /\ otp_codes' = otpAfter
  /\ users' = usersAfter
  /\ musers' = after
  /\ mongoReady' = ensureConnected
  /\ last' = Resp("POST /auth/verify-otp #2", NoToken, q, 200,
                  [user |-> dto, token |-> token], NoEvent)

\* a rejection of the second handler after the code was consumed
VerifyReject(q, otpAfter, status, error, usedMongo) ==
  /\ otp_codes' = otpAfter
  /\ mongoReady' = IF usedMongo THEN ensureConnected ELSE mongoReady
  /\ last' = Resp("POST /auth/verify-otp #2", NoToken, q, status, error, NoEvent)
  /\ UNCHANGED <<users, seq, musers>>

\* POST /api/auth/verify-otp, the handler registered second (auth.js:204-278).
\* The SELECT, the three checks and the UPDATE that consumes the row run
\* without an await between them.
VerifyOtpSecond(email, code, fullName, mobile) ==
  LET normEmail == toLowerCase(email)
      normMobile == normalizeMobile(mobile)
      q == [email |-> email, code |-> code, fullName |-> fullName, mobile |-> mobile]
      matching == Matching(normEmail, code)
      row == Newest(matching)
      otpAfter == (otp_codes \ {row}) \cup {Consume(row)}
      found == UserByEmail(normEmail)
      user == CHOOSE u \in found : TRUE
      id == seq["users"] + 1
      created == [id |-> id, email |-> normEmail, full_name |-> fullName,
                  mobile |-> normMobile, role |-> "user", is_active |-> 1,
                  deleted |-> 0]
      ms == getMongoUser(normEmail)
      m == CHOOSE d \in ms : TRUE
      shadow == [id |-> id, email |-> normEmail, full_name |-> m.fullName,
                 mobile |-> normalizeMobile(m.mobile), role |-> "user",
                 is_active |-> 1, deleted |-> 0]
      updated == [user EXCEPT !.full_name = IF fullName # NoName THEN fullName ELSE @,
                              !.mobile = IF normMobile # NoMobile THEN normMobile ELSE @]
  IN
  /\ UNCHANGED <<cars, bookings, payout_requests, mcars, mbookings,
                 sideVars, carsUpdatedAt, mongoUri, mongoUp, now>>
  /\ IF ~isEmail(email) \/ code.len # VerifyCodeLen THEN
       /\ last' = Resp("POST /auth/verify-otp #2", NoToken, q, 400, "validation", NoEvent)
       /\ UNCHANGED <<users, otp_codes, seq, mongoVars, wrongCodes>>
     ELSE IF matching = {} THEN
       /\ last' = Resp("POST /auth/verify-otp #2", NoToken, q, 400, "Invalid OTP", NoEvent)
       /\ wrongCodes' = CountWrong(normEmail)
       /\ UNCHANGED <<users, otp_codes, seq, mongoVars>>
     ELSE IF Expired(row) THEN
       /\ last' = Resp("POST /auth/verify-otp #2", NoToken, q, 400, "OTP expired", NoEvent)
       /\ UNCHANGED <<users, otp_codes, seq, mongoVars, wrongCodes>>
     ELSE IF TooManyAttempts(row) THEN
       /\ last' = Resp("POST /auth/verify-otp #2", NoToken, q, 400, "Too many attempts", NoEvent)
       /\ UNCHANGED <<users, otp_codes, seq, mongoVars, wrongCodes>>
     ELSE
       /\ UNCHANGED wrongCodes
       /\ IF found = {} /\ row.purpose = "signup" THEN
            IF normMobile # NoMobile
               /\ ((\E u \in users : u.mobile = normMobile)
                   \/ mongoMobileTaken(normMobile, NoName))
            THEN VerifyReject(q, otpAfter, 409, "Mobile number already registered", TRUE)
            ELSE /\ id <= MaxUserId
                 /\ seq' = [seq EXCEPT !["users"] = id]
                 /\ VerifyFinish(q, otpAfter, users \cup {created}, created)
          ELSE IF found = {} THEN
            IF ms = {}
            THEN VerifyReject(q, otpAfter, 404, "Email not registered", TRUE)
            ELSE IF shadow.mobile # NoMobile /\ \E u \in users : u.mobile = shadow.mobile
            \* idx_users_mobile_unique refuses the INSERT: the handler throws
            THEN VerifyReject(q, otpAfter, NoResponse, "SQLITE_CONSTRAINT_UNIQUE", TRUE)
            ELSE /\ id <= MaxUserId
                 /\ seq' = [seq EXCEPT !["users"] = id]
                 /\ VerifyFinish(q, otpAfter, users \cup {shadow}, shadow)
          ELSE IF row.purpose = "signup" THEN
            VerifyReject(q, otpAfter, 409, "Email already registered", FALSE)
          ELSE IF normMobile # NoMobile
                  /\ ((\E u \in users : u.mobile = normMobile /\ u.id # user.id)
                      \/ mongoMobileTaken(normMobile, user.email))
          THEN VerifyReject(q, otpAfter, 409, "Mobile number already registered", TRUE)
          ELSE /\ seq' = seq
               /\ VerifyFinish(q, otpAfter, (users \ {user}) \cup {updated}, updated)

\* the clock advances
Tick ==
  /\ now < MaxTime
  /\ now' = now + 1
  /\ UNCHANGED <<dbVars, mongoVars, sideVars, carsUpdatedAt, mongoUri, mongoUp, wrongCodes, last>>

\* --------------------------------------------------------- routes/users.js
\* Requests carry a valid fullName and password; a body sets email, mobile and
\* role, and a PUT body sets email and role or leaves them out (Absent).
\* Ids of the form mongo_<id> are not modelled: findOne({_id: <string>}) never
\* matches an ObjectId, so those requests answer 404 and write nothing.
UserRoles == {"user", "host"}
RoleInputs == UserRoles \cup {Absent}
UserName == "N"

\* Documents of the users collection carry deleted only after a soft delete of
\* a mongo_ id; deleted |-> FALSE stands for a document without the field.
\* toUser(row) restricted to the fields the model keeps
toUser(row) == [id |-> row.id, email |-> row.email, role |-> row.role]

\* collection.updateOne({sqliteId}, {$set: updateData}, {upsert: true}) on users
UpdateUserDoc(id, email, role) ==
  LET existing == {d \in musers : d.sqliteId = id}
      old == CHOOSE d \in musers : d.sqliteId = id
      set == [old EXCEPT !.email = IF email # Absent THEN email ELSE @,
                         !.role = IF role # Absent THEN role ELSE @]
      \* a field the upsert leaves out reads as null: NoName, NoMobile
      doc == [email |-> email, fullName |-> NoName, mobile |-> NoMobile,
              sqliteId |-> id, role |-> role, deleted |-> FALSE]
  IN IF existing # {} THEN (musers \ {old}) \cup {set} ELSE musers \cup {doc}

\* GET /api/users (admin): every users row (optionally of one role), and when
\* there is a Mongo handle the documents carrying a role whose email is not
\* among those rows, in the same list
GetUsers(tok, role) ==
  LET op == "GET /users"
      rows == {u \in users : role = Absent \/ u.role = role}
      hosts == {d \in musers : /\ d.role # Absent /\ (role = Absent \/ d.role = role)
                                /\ ~d.deleted}
      merged == {toUser(r) : r \in rows} \cup
                {[id |-> h.sqliteId, email |-> h.email, role |-> h.role] :
                   h \in {d \in hosts : \A r \in rows : r.email # d.email}}
  IN
  IF requireAdmin(tok) # 0 THEN
    /\ last' = Resp(op, tok, role, requireAdmin(tok), {}, NoEvent)
    /\ UNCHANGED <<dbVars, mongoVars, envVars>>
  ELSE IF getMongoDb THEN
    /\ mongoReady' = TRUE
    /\ last' = IF mongoUp THEN Resp(op, tok, role, 200, merged, NoEvent)
               ELSE Resp(op, tok, role, 500, {}, NoEvent)
    /\ UNCHANGED <<dbVars, mcars, mbookings, musers, envVars>>
  ELSE
    /\ last' = Resp(op, tok, role, 200, {toUser(r) : r \in rows}, NoEvent)
    /\ UNCHANGED <<dbVars, mongoVars, envVars>>

\* POST /api/users (admin): INSERT, then insertOne when there is a Mongo
\* handle; whatever throws after the INSERT is answered by the outer catch
PostUsers(tok, email, mobile, role) ==
  LET op == "POST /users"
      arg == [email |-> email, mobile |-> mobile, role |-> role]
      normEmail == toLowerCase(email)
      theRole == IF role = Absent THEN "user" ELSE role
      id == seq.users + 1
      row == [id |-> id, email |-> normEmail, full_name |-> UserName,
              mobile |-> mobile, role |-> theRole, is_active |-> 1, deleted |-> 0]
      doc == [email |-> normEmail, fullName |-> UserName, mobile |-> mobile,
              sqliteId |-> id, role |-> theRole, deleted |-> FALSE]
  IN
  /\ seq.users < MaxUserId
  /\ IF requireAdmin(tok) # 0 THEN
       /\ last' = Resp(op, tok, arg, requireAdmin(tok), NULL, NoEvent)
       /\ UNCHANGED <<dbVars, mongoVars, envVars>>
     ELSE IF ~isEmail(email) THEN
       /\ last' = Resp(op, tok, arg, 400, NULL, NoEvent)
       /\ UNCHANGED <<dbVars, mongoVars, envVars>>
     ELSE IF UserByEmail(normEmail) # {} THEN
       /\ last' = Resp(op, tok, arg, 400, NULL, NoEvent)
       /\ UNCHANGED <<dbVars, mongoVars, envVars>>
     ELSE IF \E u \in users : u.mobile = mobile THEN
       \* idx_users_mobile_unique: the INSERT throws
       /\ last' = Resp(op, tok, arg, 500, NULL, NoEvent)
       /\ UNCHANGED <<dbVars, mongoVars, envVars>>
     ELSE
       /\ users' = users \cup {row}
       /\ seq' = [seq EXCEPT !.users = id]
       /\ mongoReady' = ensureConnected
       /\ IF ~getMongoDb THEN
            /\ musers' = musers
            /\ last' = Resp(op, tok, arg, 201, toUser(row), NoEvent)
          ELSE IF ~mongoUp THEN
            /\ musers' = musers
            /\ last' = Resp(op, tok, arg, 500, NULL, NoEvent)
          ELSE
            /\ musers' = musers \cup {doc}
            /\ last' = Resp(op, tok, arg, 201, toUser(row), NoEvent)
       /\ UNCHANGED <<otp_codes, cars, bookings, payout_requests, mcars, mbookings,
                      envVars>>

\* PUT /api/users/:id (admin): UPDATE of the fields the body sets, then
\* updateOne(upsert) when there is a Mongo handle, under the same outer catch
PutUser(tok, id, email, role) ==
  LET op == "PUT /users/:id"
      arg == [id |-> id, email |-> email, role |-> role]
      normEmail == IF email = Absent THEN Absent ELSE toLowerCase(email)
      found == {u \in users : u.id = id}
      user == CHOOSE u \in users : u.id = id
      out == [user EXCEPT !.email = IF email # Absent THEN normEmail ELSE @,
                          !.role = IF role # Absent THEN role ELSE @]
  IN
  IF requireAdmin(tok) # 0 THEN
    /\ last' = Resp(op, tok, arg, requireAdmin(tok), NULL, NoEvent)
    /\ UNCHANGED <<dbVars, mongoVars, envVars>>
  ELSE IF email # Absent /\ ~isEmail(email) THEN
    /\ last' = Resp(op, tok, arg, 400, NULL, NoEvent)
    /\ UNCHANGED <<dbVars, mongoVars, envVars>>
  ELSE IF found = {} THEN
    /\ last' = Resp(op, tok, arg, 404, NULL, NoEvent)
    /\ UNCHANGED <<dbVars, mongoVars, envVars>>
  ELSE IF email # Absent /\ (\E u \in users : u.email = normEmail /\ u.id # id) THEN
    /\ last' = Resp(op, tok, arg, 400, NULL, NoEvent)
    /\ UNCHANGED <<dbVars, mongoVars, envVars>>
  ELSE
    /\ users' = (users \ {user}) \cup {out}
    /\ mongoReady' = ensureConnected
    /\ IF ~getMongoDb THEN
         /\ musers' = musers
         /\ last' = Resp(op, tok, arg, 200, toUser(out), NoEvent)
       ELSE IF ~mongoUp THEN
         /\ musers' = musers
         /\ last' = Resp(op, tok, arg, 500, NULL, NoEvent)
       ELSE
         /\ musers' = UpdateUserDoc(id, normEmail, role)
         /\ last' = Resp(op, tok, arg, 200, toUser(out), NoEvent)
    /\ UNCHANGED <<otp_codes, cars, bookings, payout_requests, seq, mcars, mbookings,
                   envVars>>

\* DELETE /api/users/:id (admin): soft delete of the SQLite row; no call on
\* the users collection for a SQLite id
DeleteUser(tok, id) ==
  LET op == "DELETE /users/:id"
      found == {u \in users : u.id = id}
      user == CHOOSE u \in users : u.id = id
  IN
  IF requireAdmin(tok) # 0 THEN
    /\ last' = Resp(op, tok, id, requireAdmin(tok), NULL, NoEvent)
    /\ UNCHANGED <<dbVars, mongoVars, envVars>>
  ELSE IF found = {} THEN
    /\ last' = Resp(op, tok, id, 404, NULL, NoEvent)
    /\ UNCHANGED <<dbVars, mongoVars, envVars>>
  ELSE
    /\ users' = (users \ {user}) \cup {[user EXCEPT !.deleted = 1]}
    /\ last' = Resp(op, tok, id, 200, NULL, NoEvent)
    /\ UNCHANGED <<otp_codes, cars, bookings, payout_requests, seq, mongoVars, envVars>>

\* GET /api/users/:id (admin): the row is read by id, then user.id.startsWith
\* is called on the numeric id of the SQLite row, which throws into the catch
GetUser(tok, id) ==
  LET op == "GET /users/:id"
      found == {u \in users : u.id = id}
  IN
  /\ last' = IF requireAdmin(tok) # 0 THEN Resp(op, tok, id, requireAdmin(tok), NULL, NoEvent)
             ELSE IF found = {} THEN Resp(op, tok, id, 404, NULL, NoEvent)
             ELSE Resp(op, tok, id, 500, NULL, NoEvent)
  /\ UNCHANGED <<dbVars, mongoVars, envVars>>

\* ===================================================== payout specification
\* Cars, bookings and payout requests with the mirror not configured.
InitPayout ==
  /\ Init
  /\ ~mongoUri /\ ~mongoUp /\ ~carsUpdatedAt

\* the callers of this specification: a host, another user and an admin
Admin1 == [id |-> 1, role |-> "admin"]
User1 == [id |-> 1, role |-> "user"]
User2 == [id |-> 2, role |-> "user"]
Callers == {User1, User2, Admin1}
\* amounts of a request body: 0 fails isInt({ min: 1 })
Amounts == {0, 1}

NextPayout ==
  \/ PostCarsHost(User1, TRUE, TRUE, NoCity)
  \/ PostCars(Admin1, TRUE, TRUE, NULL, NoCity)
  \/ \E carId \in 1..MaxCarId : PostBookings(User2, TRUE, carId, <<1>>, <<2>>)
  \/ \E tok \in Callers, bookingId \in 1..MaxBookingId, amount \in Amounts :
       PayoutRequest(tok, bookingId, amount)
  \/ \E tok \in Callers, id \in 1..MaxPayoutId : PayoutApprove(tok, id)
  \/ \E tok \in Callers, id \in 1..MaxPayoutId : PayoutReject(tok, id)

SpecPayout == InitPayout /\ [][NextPayout]_vars

\* ---------------------------------------------------------------- C1 .. C4
PendingOf(b) == {p \in payout_requests : p.booking_id = b /\ p.status = "pending"}

\* C1: in every reachable state, whatever the order in which create, approve
\* and reject requests were served, a booking has at most one payout request
\* whose status is 'pending'.
C1_AtMostOnePending ==
  \A b \in 1..MaxBookingId : Cardinality(PendingOf(b)) <= 1

\* a second create for a booking with a pending request was answered, and a
\* booking went through a full cycle: one decided request and a new pending one
C1_Witness ==
  /\ last.op = "POST /payouts/request" /\ last.status = 409
  /\ \E p, q \in payout_requests :
       p.booking_id = q.booking_id /\ p.status # "pending" /\ q.status = "pending"

\* C2: a payout request is never removed and its status changes only from
\* 'pending' to 'approved' or from 'pending' to 'rejected'; an approved or
\* rejected request keeps its status in every step.
C2_StatusTransitions ==
  [][\A p \in payout_requests :
       \E q \in payout_requests' :
         /\ q.id = p.id
         /\ (q.status # p.status =>
               p.status = "pending" /\ q.status \in {"approved", "rejected"})]_vars

\* an approved request was asked to be rejected and a rejected one to be approved
C2_Witness ==
  /\ \E p \in payout_requests : p.status = "approved"
  /\ \E p \in payout_requests :
       /\ p.status = "rejected"
       /\ last.op = "POST /payouts/:id/approve" /\ last.arg = p.id /\ last.status = 400

\* the request just answered (last') was a create by the host who owns the
\* booking's car, with a valid body
OwnerCreate ==
  /\ last'.op = "POST /payouts/request"
  /\ last'.tok # NoToken
  /\ last'.arg.amount >= 1
  /\ \E b \in bookings :
       /\ b.id = last'.arg.bookingId
       /\ \E c \in cars : c.id = b.car_id /\ c.host_id = last'.tok.id

\* the request just answered was an approve or reject by an admin
AdminDecide ==
  /\ last'.op \in {"POST /payouts/:id/approve", "POST /payouts/:id/reject"}
  /\ last'.tok.role = "admin"

\* C3: a create by the owning host for a booking that has a pending request
\* is answered 409, an approve or reject of a request that is not pending is
\* answered 400, and either leaves payout_requests unchanged and publishes
\* no event.
C3_ConflictLeavesTable ==
  [][/\ (OwnerCreate /\ PendingOf(last'.arg.bookingId) # {}) =>
          /\ last'.status = 409
          /\ payout_requests' = payout_requests
          /\ last'.pub = NoEvent
     /\ (AdminDecide /\ \E p \in payout_requests :
                           p.id = last'.arg /\ p.status # "pending") =>
          /\ last'.status = 400
          /\ payout_requests' = payout_requests
          /\ last'.pub = NoEvent]_vars

\* both rejections have been seen: the 409, and the 400 on a decided request
C3_Witness ==
  /\ last.op = "POST /payouts/:id/reject" /\ last.status = 400
  /\ \E p \in payout_requests : p.id = last.arg /\ p.status = "approved"
  /\ \E b \in 1..MaxBookingId : PendingOf(b) # {}

\* C4: a step inserts a payout request only as a create whose requester id is
\* the host_id of the car of the booking, the row carries that id as host_id,
\* and a create answered 404 or 403 inserts nothing; so every payout request
\* names the host of its booking's car.
C4_OnlyOwnerCreates ==
  [][/\ \A p \in {x \in payout_requests' : \A y \in payout_requests : y.id # x.id} :
          /\ last'.op = "POST /payouts/request" /\ last'.status = 201
          /\ p.host_id = last'.tok.id
          /\ \E b \in bookings :
               /\ b.id = p.booking_id
               /\ \E c \in cars : c.id = b.car_id /\ c.host_id = p.host_id
     /\ (last'.op = "POST /payouts/request" /\ last'.status \in {403, 404}) =>
          payout_requests' = payout_requests]_vars

\* a create by an authenticated user for a booking on a car without a host
\* was refused with 403
C4_Witness ==
  /\ last.tok # NoToken
  /\ last.op = "POST /payouts/request" /\ last.status = 403
  /\ \E b \in bookings :
       /\ b.id = last.arg.bookingId
       /\ \E c \in cars : c.id = b.car_id /\ c.host_id = NULL

\* ======================================================== OTP specification
\* The handlers of routes/auth.js, each invoked directly, the mirror not
\* configured.
InitOtp ==
  /\ Init
  /\ ~mongoUri /\ ~mongoUp /\ ~carsUpdatedAt

\* request bodies of this specification
OtpEmails == {"a@x.co", "A@X.CO", "nope"}
Mobiles == {<<9, Dash>>}
Codes4 == {Code(GenOtpLen, n) : n \in 1..MaxCode}
Code6 == Code(RequestCodeLen, 1)

NextOtp ==
  \/ \E email \in OtpEmails, purpose \in PurposeInputs, n \in 1..MaxCode :
       VerifyOtpFirst(email, Code6, purpose, n)
  \/ \E email \in OtpEmails, code \in Codes4 \cup {Code6}, mobile \in Mobiles :
       VerifyOtpSecond(email, code, "N", mobile)
  \/ Tick

SpecOtp == InitOtp /\ [][NextOtp]_vars
\* ---------------------------------------------------------------- C5 .. C7
\* the step just taken is an answer of the second verify-otp handler to a
\* well-formed request
SecondAnswered ==
  /\ last'.op = "POST /auth/verify-otp #2"
  /\ now' = now
  /\ isEmail(last'.arg.email)
  /\ last'.arg.code.len = VerifyCodeLen

\* the rows of the request just answered: same email and code, consumed or not
RowsOfRequest ==
  {r \in otp_codes : r.email = toLowerCase(last'.arg.email) /\ r.code = last'.arg.code}

\* C5: an OTP code is single-use: once a row for (email, code) has been
\* matched and consumed, every later verification with the same (email, code)
\* is rejected as an invalid OTP and changes no user.
C5_SingleUse ==
  [][(SecondAnswered /\ \E r \in RowsOfRequest : r.consumed = 1) =>
        /\ last'.status = 400
        /\ last'.out = "Invalid OTP"
        /\ users' = users]_vars

\* C6: after five verification requests for an email that carried a wrong
\* code, a request carrying the issued code, unexpired and unconsumed, is
\* rejected.
C6_UnusableAfterFiveWrong ==
  [][(/\ SecondAnswered
      /\ wrongCodes[toLowerCase(last'.arg.email)] >= MaxAttempts
      /\ \E r \in RowsOfRequest : r.consumed = 0 /\ r.expires_at >= now) =>
        /\ last'.status = 400
        /\ users' = users]_vars

\* C7: a request whose newest matching unconsumed row is past its expiry or
\* has an attempt counter of 5 or more is answered 400 with an error and no
\* token, and users, the mirror of users and otp_codes are left as they were.
C7_RejectsExpiredOrExhausted ==
  [][(/\ SecondAnswered
      /\ \E r \in RowsOfRequest :
           /\ r.consumed = 0
           /\ \A o \in RowsOfRequest : o.consumed = 0 => o.id <= r.id
           /\ (r.expires_at < now \/ r.attempts >= MaxAttempts)) =>
        /\ last'.status = 400
        /\ last'.out \in {"OTP expired", "Too many attempts"}
        /\ users' = users
        /\ musers' = musers
        /\ otp_codes' = otp_codes]_vars

\* a request carrying the code of an expired, unconsumed row was answered
\* 'OTP expired'
C7_Witness ==
  /\ last.op = "POST /auth/verify-otp #2"
  /\ last.status = 400
  /\ last.out = "OTP expired"
  /\ \E r \in otp_codes :
       /\ r.email = toLowerCase(last.arg.email) /\ r.code = last.arg.code
       /\ r.consumed = 0 /\ r.attempts = 0 /\ r.expires_at < now
\* ================================================= auth route specification
\* POST /api/auth/verify-otp as the router serves it.  Both handlers are
\* registered on the same method and path; express runs the one registered
\* first (auth.js:159), which answers on every path and has no next(), so the
\* handler registered second (auth.js:204) is never entered.
PostVerifyOtp(email, code, purpose, fullName, mobile, n) ==
  VerifyOtpFirst(email, code, purpose, n)

InitHttp ==
  /\ Init
  /\ ~mongoUri /\ ~mongoUp /\ ~carsUpdatedAt

HttpEmails == {"a@x.co", "nope"}

NextHttp ==
  \/ \E email \in HttpEmails, purpose \in PurposeInputs, n \in 1..MaxCode :
       RequestOtp(email, purpose, n)
  \/ \E email \in HttpEmails, code \in Codes, purpose \in PurposeInputs,
        mobile \in Mobiles, n \in 1..MaxCode :
       PostVerifyOtp(email, code, purpose, "N", mobile, n)
  \/ \E email \in HttpEmails, n \in 1..MaxCode : LoginPassword(email, n)
  \/ Tick

SpecHttp == InitHttp /\ [][NextHttp]_vars

\* ----------------------------------------------------------------------- C8
\* the step just taken is an answer to POST /api/auth/verify-otp
VerifyAnswered ==
  /\ last'.op \in {"POST /auth/verify-otp #1", "POST /auth/verify-otp #2"}
  /\ now' = now
  /\ last' # last

\* C8: when request-otp has issued a signup code for an email that is not
\* registered, a verify-otp request with that email and code, while the code
\* is unexpired, is answered 200, leaves exactly one user with that email and
\* returns a token with role 'user'.
C8_SignupEndToEnd ==
  [][(/\ VerifyAnswered
      /\ isEmail(last'.arg.email)
      /\ UserByEmail(toLowerCase(last'.arg.email)) = {}
      /\ \E r \in otp_codes :
           /\ r.email = toLowerCase(last'.arg.email)
           /\ r.code = last'.arg.code
           /\ r.code.len = RequestCodeLen
           /\ r.purpose = "signup"
           /\ r.consumed = 0
           /\ r.expires_at >= now) =>
        /\ Cardinality({u \in users' : u.email = toLowerCase(last'.arg.email)}) = 1
        /\ last'.status = 200
        /\ last'.out.token.role = "user"]_vars
\* ================================================ availability specification
\* Cars, bookings and the availability query with MONGODB_URI set and a
\* MongoDB server that comes and goes.
InitAvail ==
  /\ Init
  /\ mongoUri

\* the queries of this specification: the booked range, a range after it,
\* and one without pickup
Queries == {<<<<1>>, <<2>>>>, <<<<2>>, <<2, 0>>>>, <<EmptyString, <<2>>>>}

NextAvail ==
  \/ \E available \in BOOLEAN : PostCars(Admin1, TRUE, available, NULL, NoCity)
  \/ PostCarsHost(User1, TRUE, TRUE, NoCity)
  \/ PostCarsHostInsertOne
  \/ PostCarsHostCommit
  \/ \E carId \in 1..MaxCarId, available \in {"true", "false"} :
       PutCar(User1, carId, available)
  \/ \E carId \in 1..MaxCarId, available \in {"true", "false"} :
       PutCarAdmin(Admin1, carId, available)
  \/ \E carId \in 1..MaxCarId : DeleteCar(Admin1, carId)
  \/ \E carId \in 1..MaxCarId : PostBookings(User2, TRUE, carId, <<1>>, <<2>>)
  \/ \E q \in Queries : GetAvailability(q[1], q[2], NoCity)
  \/ MongoFlip

SpecAvail == InitAvail /\ [][NextAvail]_vars

\* --------------------------------------------------------------- C9 .. C10
\* the step just taken is a 200 answer of GET /api/cars/availability
AvailabilityAnswered ==
  /\ last'.op = "GET /cars/availability"
  /\ last'.status = 200
  /\ UNCHANGED <<mongoUp, hostReq, cars, bookings>>

\* the predicate of the claim on the primary rows: available, and no booking
\* of the car that is not cancelled overlaps [pickup, return)
BookableInPrimary(c, pickup, ret) ==
  /\ c.available = 1
  /\ ~\E b \in bookings :
        /\ b.car_id = c.id
        /\ b.status # "cancelled"
        /\ ~(LexLeq(b.return_date, pickup) \/ LexLeq(ret, b.pickup_date))

\* C9: an answer of the availability query reports availableForRange = true
\* for a non-deleted car exactly when the car is available and no booking of
\* it that is not cancelled overlaps the queried range.
C9_AvailabilityPredicate ==
  [][AvailabilityAnswered =>
       \A c \in {x \in cars : x.deleted = 0} :
         (\E e \in last'.out : e.id = c.id /\ e.availableForRange)
           <=> BookableInPrimary(c, last'.arg.pickup, last'.arg.return)]_vars

\* C10: no answer of the availability query reports availableForRange = true
\* for a car whose row in the primary store has available = 0.
C10_UnavailableNeverReported ==
  [][AvailabilityAnswered =>
       \A e \in last'.out :
         e.availableForRange => ~\E c \in cars : c.id = e.id /\ c.available = 0]_vars
\* ===================================================== mirror specification
\* The two branches of GET /api/cars/availability over tables of any content
\* and a secondary store that mirrors them exactly.  bookings.status is free
\* TEXT: 'cancelled' is a value the predicate must handle.
\* per id: whether the row exists, and its columns
CarChoices == [present : BOOLEAN, available : {0, 1}, deleted : {0, 1}, city : CityOrNull]
BookedRanges == {<<<<1>>, <<2>>>>, <<<<1, 0>>, <<2>>>>}
BookingChoices ==
  [present : BOOLEAN, car_id : 1..MaxCarId, range : BookedRanges,
   status : {"confirmed", "cancelled"}]

\* the cars tables and the bookings tables with one row per id at most
CarTables ==
  {{[id |-> i, host_id |-> NULL, available |-> f[i].available,
     deleted |-> f[i].deleted, city |-> f[i].city] :
      i \in {j \in 1..MaxCarId : f[j].present}} :
     f \in [1..MaxCarId -> CarChoices]}
BookingTables ==
  {{[id |-> i, user_id |-> 1, car_id |-> f[i].car_id, pickup_date |-> f[i].range[1],
     return_date |-> f[i].range[2], status |-> f[i].status] :
      i \in {j \in 1..MaxBookingId : f[j].present}} :
     f \in [1..MaxBookingId -> BookingChoices]}

\* the secondary store holds exactly the mirror documents of the primary rows
ExactMirror ==
  /\ mcars = {CarDoc(c) : c \in cars}
  /\ mbookings = {BookingDoc(b) : b \in bookings}

InitMirror ==
  /\ users = {} /\ otp_codes = {} /\ payout_requests = {} /\ musers = {}
  /\ cars \in CarTables
  /\ bookings \in BookingTables
  /\ seq = [t \in {"users", "otp_codes", "cars", "bookings", "payout_requests"} |->
              IF t = "cars" THEN MaxCarId ELSE IF t = "bookings" THEN MaxBookingId ELSE 0]
  /\ carsUpdatedAt = FALSE /\ mongoUri = TRUE /\ mongoUp = TRUE /\ mongoReady = TRUE
  /\ ExactMirror
  /\ now = 0
  /\ wrongCodes = [e \in NormEmails |-> 0]
  /\ last = Resp("none", NoToken, NULL, 0, NULL, NoEvent)
  /\ attachments = {}
  /\ hostReq = NoHostReq
  /\ sse = NoSse
  /\ mconn = NoConn
  /\ messages = NoMessages

NextMirror ==
  \E ret \in {<<1, 0>>, <<2>>}, city \in CityOrNull :
    GetAvailability(<<1>>, ret, city)

SpecMirror == InitMirror /\ [][NextMirror]_vars

\* ---------------------------------------------------------------------- C11
\* C11: whenever the secondary store's cars and bookings are exact mirrors of
\* the primary rows, the secondary branch and the primary branch of the
\* availability query return the same set of {id, availableForRange} pairs
\* for every pickup, return and city.
C11_BranchesAgree ==
  ExactMirror =>
    \A pickup \in DateStrings, ret \in DateStrings, city \in CityOrNull :
      MongoAvailability(pickup, ret, city) = SqliteAvailability(pickup, ret, city)

\* the secondary branch answered over an exact mirror: one car reported true
\* although a cancelled booking of it overlaps the range, another reported
\* false
C11_Witness ==
  /\ ExactMirror
  /\ last.op = "GET /cars/availability" /\ last.status = 200
  /\ \E e \in last.out :
       /\ e.availableForRange
       /\ \E b \in bookings :
            /\ b.car_id = e.id /\ b.status = "cancelled"
            /\ b.pickup_date = last.arg.pickup /\ b.return_date = last.arg.return
  /\ \E e \in last.out : ~e.availableForRange

\* ======================================================= users specification
\* The admin user endpoints with the mirror configured and a MongoDB server
\* that comes and goes.
InitUsers == Init /\ mongoUri /\ ~carsUpdatedAt

UserEmails == {"a@x.co", "b@x.co", "nope"}
\* the same number typed with and without a separator
UserMobiles == {<<9>>, <<9, Dash>>}

NextUsers ==
  \/ \E e \in UserEmails, m \in UserMobiles, r \in {Absent, "host"} :
       PostUsers(Admin1, e, m, r)
  \/ \E id \in UserIds, e \in {"b@x.co", Absent}, r \in {Absent, "host"} :
       PutUser(Admin1, id, e, r)
  \/ \E tok \in {Admin1, User2}, id \in UserIds : DeleteUser(tok, id)
  \/ \E id \in UserIds : GetUser(Admin1, id)
  \/ \E r \in {Absent, "host"} : GetUsers(Admin1, r)
  \/ MongoFlip

SpecUsers == InitUsers /\ [][NextUsers]_vars

\* the endpoints that write the primary store
WriteOps == {"POST /users", "PUT /users/:id", "DELETE /users/:id", "POST /cars",
             "POST /cars/host", "PUT /cars/:id", "DELETE /cars/:id", "POST /bookings",
             "DELETE /bookings/:id"}

\* C12: a write endpoint that performed its primary write answers with its
\* normal success status, whatever the state of the secondary store.
C12_WriteSurvivesMirrorFailure ==
  [][(last'.op \in WriteOps /\ <<users, cars, bookings>>' # <<users, cars, bookings>>)
       => last'.status \in {200, 201}]_vars

\* ======================================================= reads specification
\* Cars and bookings are written and read with the mirror configured and a
\* MongoDB server that comes and goes.
InitReads == Init /\ mongoUri /\ ~carsUpdatedAt

NextReads ==
  \/ \E available \in BOOLEAN, hostId \in {NULL, 1} :
       PostCars(Admin1, TRUE, available, hostId, NoCity)
  \/ \E carId \in 1..MaxCarId : DeleteCar(Admin1, carId)
  \/ \E carId \in 1..MaxCarId : PostBookings(User2, TRUE, carId, <<1>>, <<2>>)
  \/ GetCars
  \/ GetCarsAdmin(Admin1)
  \/ GetCarsMine(User1)
  \/ \E id \in 1..MaxCarId : GetCar(id)
  \/ GetAvailability(<<1>>, <<2>>, NoCity)
  \/ GetBookingsMe(User2)
  \/ GetBookings(Admin1)
  \/ MongoFlip

SpecReads == InitReads /\ [][NextReads]_vars

\* what the primary store's query of a read endpoint answers
PrimaryAnswer(r) ==
  CASE r.op = "GET /cars" -> SqliteCars
    [] r.op = "GET /cars/admin" -> SqliteCars
    [] r.op = "GET /cars/mine" -> SqliteCarsMine(r.tok)
    [] r.op = "GET /cars/:id" -> SqliteCar(r.arg)
    [] r.op = "GET /cars/availability" ->
         SqliteAvailability(r.arg.pickup, r.arg.return, r.arg.city)
    [] r.op = "GET /bookings/me" -> SqliteBookingsMe(r.tok)
    [] r.op = "GET /bookings" -> {toBooking(b) : b \in bookings}

ReadOps == {"GET /cars", "GET /cars/admin", "GET /cars/mine", "GET /cars/availability",
            "GET /bookings/me", "GET /bookings"}

\* C13: a list read answered while the secondary store cannot serve (not
\* configured, not reachable, or its query throws) is answered 200 with the
\* rows of the primary store's query.
C13_ReadFallsBack ==
  [][(last'.op \in ReadOps /\ ~mongoUp)
       => (last'.status = 200 /\ last'.out = PrimaryAnswer(last'))]_vars

\* C14: the rows of one answered list all come from one store: GET /users
\* never answers rows of the users table together with entries built from
\* documents of the users collection.
C14_SingleStoreList ==
  (last.op = "GET /users" /\ last.status = 200) =>
    LET rows == {u \in users : last.arg = Absent \/ u.role = last.arg}
        fromPrimary == {e \in last.out : \E r \in rows : r.email = e.email}
        fromSecondary == last.out \ fromPrimary
    IN fromPrimary = {} \/ fromSecondary = {}

\* ==================================================== fidelity specification
\* Users, cars and bookings are written with the mirror configured and the
\* MongoDB server reachable from the start and throughout.
InitFidelity == Init /\ mongoUri /\ mongoUp /\ ~carsUpdatedAt

NextFidelity ==
  \/ \E e \in {"a@x.co", "b@x.co"}, m \in UserMobiles, r \in RoleInputs :
       PostUsers(Admin1, e, m, r)
  \/ \E id \in UserIds, e \in {"b@x.co", Absent}, r \in RoleInputs : PutUser(Admin1, id, e, r)
  \/ \E id \in UserIds : DeleteUser(Admin1, id)
  \/ \E available \in BOOLEAN : PostCars(Admin1, TRUE, available, NULL, NoCity)
  \/ \E carId \in 1..MaxCarId, available \in {"true", "false"} :
       PutCarAdmin(Admin1, carId, available)
  \/ \E carId \in 1..MaxCarId : DeleteCar(Admin1, carId)
  \/ \E carId \in 1..MaxCarId : PostBookings(User2, TRUE, carId, <<1>>, <<2>>)

SpecFidelity == InitFidelity /\ [][NextFidelity]_vars

\* the users document that equals a users row in its mapped fields
UserDocMatches(d, u) ==
  /\ d.sqliteId = u.id
  /\ d.email = u.email
  /\ d.role = u.role
  /\ d.deleted = (u.deleted # 0)

\* C15: with the secondary store reachable throughout, after every completed
\* mutation each user, car and booking has a document keyed by its id whose
\* mapped fields, the soft-delete flag among them, equal the row.
C15_MirrorFidelity ==
  /\ \A u \in users : \E d \in musers : UserDocMatches(d, u)
  /\ mcars = {CarDoc(c) : c \in cars}
  /\ mbookings = {BookingDoc(b) : b \in bookings}

\* ================================================= mirror-ops specification
\* Cars and bookings are created and deleted with MONGODB_URI set or not and
\* a MongoDB server that comes and goes; every write calls a mirror operation.
InitMirrorOps == Init /\ ~carsUpdatedAt

NextMirrorOps ==
  \/ PostCars(Admin1, TRUE, TRUE, NULL, NoCity)
  \/ \E carId \in 1..MaxCarId : DeleteCar(Admin1, carId)
  \/ \E carId \in 1..MaxCarId, kinds \in {{}, {"idFront", "license"}} :
       PostBookingsWith(User2, TRUE, carId, <<1>>, <<2>>, kinds)
  \/ \E id \in 1..MaxBookingId : DeleteBooking(Admin1, id)
  \/ MongoFlip

SpecMirrorOps == InitMirrorOps /\ [][NextMirrorOps]_vars

\* the outcomes of the five mirror operations in the current state
Outcomes(hasKey) ==
  {mirrorUserOutcome(hasKey), mirrorCarOutcome(hasKey), mirrorBookingOutcome(hasKey),
   deleteCarFromMongo, deleteBookingOutcome}

\* C16: a mirror operation never throws; it returns {ok: false, skipped: true}
\* when no connection can be had, {ok: true} after a write that went through,
\* and {ok: false} when the write raised.
C16_MirrorOutcomes ==
  \A hasKey \in BOOLEAN : \A o \in Outcomes(hasKey) :
    /\ ~o.threw
    /\ ~ensureConnected => o = Skipped
    /\ o.ok => (ensureConnected /\ mongoUp)
    /\ (ensureConnected /\ mongoUp /\ hasKey) => o = Done
    /\ (ensureConnected /\ ~mongoUp /\ hasKey) => o = Failed

\* a DELETE /cars/:id was answered 200 although its mirrorCarToMongo raised:
\* the connection is cached, the server is away, the document is not updated
C16_Witness ==
  /\ last.op = "DELETE /cars/:id" /\ last.status = 200
  /\ mongoReady /\ ~mongoUp
  /\ mirrorCarOutcome(TRUE) = Failed
  /\ \E c \in cars : /\ c.id = last.arg /\ c.deleted = 1
                     /\ \E d \in mcars : d.sqliteId = c.id /\ ~d.deleted

\* C17: the secondary store holds no document of a car whose row is still
\* inside the uncommitted transaction of the request that inserted it.
C17_PrimaryBeforeMirror ==
  hostReq.pc # "idle" => \A d \in mcars : d.sqliteId # hostReq.row.id

\* the car an entry of a car read stands for: a document answered as it is
\* carries sqliteId, a shaped entry carries id
EntryCarId(e) == IF "sqliteId" \in DOMAIN e THEN e.sqliteId ELSE e.id

CarReadOps == {"GET /cars", "GET /cars/admin", "GET /cars/mine", "GET /cars/:id",
               "GET /cars/availability"}

\* C18: a successful DELETE /cars/:id leaves the row in place with deleted
\* set, and no 200 answer of a car read holds an entry for a car whose row is
\* marked deleted, whichever store served it.
C18_CarSoftDelete ==
  [][/\ (last'.op = "DELETE /cars/:id" /\ last'.status = 200 /\ mongoUp' = mongoUp)
         => \E c \in cars' : c.id = last'.arg /\ c.deleted = 1
     /\ (last'.op \in CarReadOps /\ last'.status = 200 /\ mongoUp' = mongoUp)
         => \A e \in last'.out : ~\E c \in cars : c.deleted = 1 /\ c.id = EntryCarId(e)]_vars

\* C19: a successful DELETE /users/:id leaves the row in place with deleted
\* set, and no 200 answer of GET /users or GET /users/:id holds a user whose
\* row is marked deleted.
C19_UserSoftDelete ==
  [][/\ (last'.op = "DELETE /users/:id" /\ last'.status = 200 /\ mongoUp' = mongoUp)
         => \E u \in users' : u.id = last'.arg /\ u.deleted = 1
     /\ (last'.op = "GET /users" /\ last'.status = 200 /\ mongoUp' = mongoUp)
         => \A e \in last'.out : ~\E u \in users : u.deleted = 1 /\ u.id = e.id
     /\ (last'.op = "GET /users/:id" /\ last'.status = 200 /\ mongoUp' = mongoUp)
         => ~\E u \in users : u.deleted = 1 /\ u.id = last'.arg]_vars

\* C20: after a successful DELETE /bookings/:id neither the booking row nor
\* an attachment row of that booking remains, the booking document is gone
\* when the secondary store is reachable, and in every state each attachment
\* row references an existing booking.
C20_BookingDeleteCascades ==
  /\ [][(last'.op = "DELETE /bookings/:id" /\ last'.status = 200 /\ mongoUp' = mongoUp)
          => /\ ~\E b \in bookings' : b.id = last'.arg
             /\ ~\E a \in attachments' : a.booking_id = last'.arg
             /\ (mongoUri /\ mongoUp) => ~\E d \in mbookings' : d.sqliteId = last'.arg]_vars
  /\ [](\A a \in attachments : \E b \in bookings : b.id = a.booking_id)

\* a booking that was created has been deleted with the secondary store
\* reachable and its connection cached
C20_Witness ==
  /\ last.op = "DELETE /bookings/:id" /\ last.status = 200
  /\ mongoUri /\ mongoUp /\ mongoReady
  /\ seq["bookings"] >= last.arg
  /\ ~\E b \in bookings : b.id = last.arg
  /\ ~\E a \in attachments : a.booking_id = last.arg

\* ---------------------------------------------------------------------
\* Cars and bookings of the primary store under every car and booking write
\* ---------------------------------------------------------------------
InitBooking == Init /\ mongoUri /\ ~carsUpdatedAt

BookingKinds == {{"idFront"}}

NextBooking ==
  \/ PostCars(Admin1, TRUE, TRUE, NULL, NoCity)
  \/ PostCarsHost(User1, TRUE, TRUE, NoCity)
  \/ PostCarsHostInsertOne
  \/ PostCarsHostCommit
  \/ \E id \in 1..MaxCarId : PutCarAdmin(Admin1, id, "false")
  \/ \E id \in 1..MaxCarId : DeleteCar(Admin1, id)
  \/ \E carId \in 1..MaxCarId, kinds \in BookingKinds :
       PostBookingsWith(User2, TRUE, carId, <<1>>, <<2>>, kinds)
  \/ \E id \in 1..MaxBookingId : DeleteBooking(Admin1, id)

SpecBooking == InitBooking /\ [][NextBooking]_vars

\* C21: every booking row of the primary store references a car row that
\* exists in the primary store, and a POST /api/bookings that names a car
\* with no row answers 400 and inserts no booking and no attachment.
C21_BookingReferencesCar ==
  /\ [](\A b \in bookings : \E c \in cars : c.id = b.car_id)
  /\ [][(/\ last'.op = "POST /bookings"
          /\ UNCHANGED <<mongoUp, hostReq, cars>>
          /\ last'.tok # NoToken
          /\ ~\E c \in cars : c.id = last'.arg)
        => (/\ last'.status = 400
            /\ UNCHANGED <<bookings, attachments, mbookings>>)]_vars

\* a booking outlives the deletion of its car because the car row stays,
\* and a request for a car that has no row was rejected
C21_Witness ==
  /\ \E b \in bookings : \E c \in cars : c.id = b.car_id /\ c.deleted = 1
  /\ last.op = "POST /bookings" /\ last.status = 400
  /\ ~\E c \in cars : c.id = last.arg

\* C22: no two users of the primary store have the same non-empty mobile
\* number once every non-digit character is stripped.
C22_UniqueNormalizedMobile ==
  \A u, v \in users :
    (u.id # v.id /\ normalizeMobile(u.mobile) # NoMobile)
      => normalizeMobile(u.mobile) # normalizeMobile(v.mobile)

\* ---------------------------------------------------------------------
\* The event stream: subscribers come and go while bookings and payout
\* requests are created and decided (no secondary store)
\* ---------------------------------------------------------------------
InitEvents == InitPayout

NextEvents ==
  \/ PostCarsHost(User1, TRUE, TRUE, NoCity)
  \/ \E carId \in 1..MaxCarId : PostBookings(User2, TRUE, carId, <<1>>, <<2>>)
  \/ \E tok \in {User1, User2}, bookingId \in 1..MaxBookingId :
       PayoutRequest(tok, bookingId, 1)
  \/ \E id \in 1..MaxPayoutId : PayoutApprove(Admin1, id)
  \/ \E id \in 1..MaxPayoutId : PayoutReject(Admin1, id)
  \/ \E s \in Subs : SseHandler(s)
  \/ \E s \in Subs : PeerGone(s)
  \/ \E s \in Subs : OnClose(s)

SpecEvents == InitEvents /\ [][NextEvents]_vars

\* C23: a write that fails for one subscriber during a publish removes that
\* subscriber only: every other connected subscriber receives the event, the
\* other subscribers stay in the set in their order, and the publishing
\* handler answers normally.
C23_FailureDropsOnlyThatSubscriber ==
  [][sse'.n # sse.n =>
       LET dropped == Range(sse.clients) \ Range(sse'.clients) IN
       /\ \A t \in Range(sse.clients) \ dropped :
            sse.conn[t] = "open" => sse'.received[t] = Append(sse.received[t], last'.pub)
       /\ \A d \in dropped : sse.conn[d] = "broken" /\ sse'.received[d] = sse.received[d]
       /\ sse'.clients = SelectSeq(sse.clients, LAMBDA x : x \notin dropped)
       /\ sse'.conn = sse.conn
       /\ last'.status \in {200, 201}]_vars

\* one subscriber was dropped by a failed write while another, still
\* subscribed, received the event of that publish
C23_Witness ==
  \E d \in Subs, t \in Subs :
    /\ sse.conn[d] = "broken" /\ d \notin Range(sse.clients)
    /\ Len(sse.due[d]) < sse.n
    /\ t \in Range(sse.clients) /\ sse.conn[t] = "open"
    /\ sse.received[t] # <<>>
    /\ sse.received[t][Len(sse.received[t])] = last.pub

\* C24: a subscriber has received exactly the events published between its
\* subscription and its disconnect, once each and in publish order: nothing
\* published earlier and nothing published later.
C24_ReceivesWhatWasPublishedWhileConnected ==
  \A s \in Subs : sse.received[s] = sse.due[s]

\* a subscriber that joined after the first event, left before the third and
\* holds the second only
C24_Witness ==
  \E s \in Subs :
    /\ sse.conn[s] = "closed"
    /\ sse.n = 3
    /\ sse.received[s] = << <<"payout_request_created", 1>> >>

\* C25: each successful booking creation, payout request creation and payout
\* approve or reject publishes its event exactly once, in the step that wrote
\* the primary store, and a request that is rejected publishes nothing.
C25_OneEventPerSuccessfulWrite ==
  [][/\ sse'.n \in {sse.n, sse.n + 1}
     /\ \A b \in bookings' \ bookings :
          sse'.n = sse.n + 1 /\ last'.pub = <<"booking_created", b.id>>
     /\ \A q \in payout_requests' \ payout_requests :
          /\ sse'.n = sse.n + 1
          /\ last'.pub = <<IF \E o \in payout_requests : o.id = q.id
                           THEN "payout_request_updated"
                           ELSE "payout_request_created", q.id>>
     /\ sse'.n # sse.n =>
          /\ last'.status \in {200, 201}
          /\ bookings' # bookings \/ payout_requests' # payout_requests]_vars

\* the three kinds of event have each been published once
C25_Witness ==
  /\ sse.n = 3
  /\ last.status = 200
  /\ last.pub = <<"payout_request_updated", 1>>
  /\ \E p \in payout_requests : p.id = 1 /\ p.status # "pending"

\* ---------------------------------------------------------------------
\* The admin-only routes called without a token, with a user's token and
\* with an admin's token (no secondary store)
\* ---------------------------------------------------------------------
InitAdmin == InitPayout

AdminCallers == {NoToken, User1, Admin1}

NextAdmin ==
  \/ PostCarsHost(User1, TRUE, TRUE, NoCity)
  \/ PostBookings(User2, TRUE, 1, <<1>>, <<2>>)
  \/ PayoutRequest(User1, 1, 1)
  \/ PostMessage(TRUE)
  \/ \E tok \in AdminCallers : PostCars(tok, TRUE, TRUE, NULL, NoCity)
  \/ \E tok \in AdminCallers : GetCarsAdmin(tok)
  \/ \E tok \in AdminCallers : GetBookings(tok)
  \/ \E tok \in AdminCallers : DeleteBooking(tok, 1)
  \/ \E tok \in AdminCallers : GetMessages(tok)
  \/ \E tok \in AdminCallers : GetMessage(tok, 1)
  \/ \E tok \in AdminCallers, configured \in BOOLEAN : ReplyMessage(tok, 1, TRUE, configured, TRUE)
  \/ \E tok \in AdminCallers : DeleteMessage(tok, 1)
  \/ \E tok \in AdminCallers : GetUsers(tok, Absent)
  \/ \E tok \in AdminCallers : PostUsers(tok, "a@x.co", <<9>>, Absent)
  \/ \E tok \in AdminCallers : PutUser(tok, 1, Absent, "host")
  \/ \E tok \in AdminCallers : DeleteUser(tok, 1)
  \/ \E tok \in AdminCallers : GetUser(tok, 1)
  \/ \E tok \in AdminCallers : PayoutApprove(tok, 1)
  \/ \E tok \in AdminCallers : PayoutReject(tok, 1)

SpecAdmin == InitAdmin /\ [][NextAdmin]_vars

AdminOps ==
  {"POST /cars", "GET /cars/admin", "GET /bookings", "DELETE /bookings/:id",
   "GET /messages", "GET /messages/:id", "POST /messages/:id/reply",
   "DELETE /messages/:id", "GET /users", "POST /users", "PUT /users/:id",
   "DELETE /users/:id", "GET /users/:id", "POST /payouts/:id/approve",
   "POST /payouts/:id/reject"}

\* the admin-only operations that answer a list
AdminLists == {"GET /cars/admin", "GET /bookings", "GET /messages", "GET /users"}

\* C26: an admin-only operation called without a valid token answers 401,
\* called with a valid token of another role answers 403, and in both cases
\* returns no data and changes no table, no document and no subscriber.
C26_AdminOnly ==
  [][(last'.op \in AdminOps /\ last'.tok.role # "admin") =>
       /\ last'.status = (IF last'.tok = NoToken THEN 401 ELSE 403)
       /\ last'.out = (IF last'.op \in AdminLists THEN {} ELSE NULL)
       /\ last'.pub = NoEvent
       /\ UNCHANGED <<dbVars, mongoVars, attachments, messages, sse>>]_vars

\* a user's token was refused on a delete while a booking, a user, a message
\* and a pending payout request exist
C26_Witness ==
  /\ last.op = "DELETE /bookings/:id" /\ last.tok = User1 /\ last.status = 403
  /\ bookings # {} /\ users # {} /\ messages.rows # {}
  /\ \E p \in payout_requests : p.status = "pending"

\* C27: a token issued by the admin login is never taken for the user whose
\* numeric id equals the admin's id: a POST /api/payouts/request carrying it
\* creates no payout request.
C27_AdminIsNotThatUser ==
  [][(last'.op = "POST /payouts/request" /\ last'.tok.role = "admin") =>
       /\ last'.status # 201
       /\ payout_requests' = payout_requests]_vars

\* C28: a POST /api/bookings for a car that is soft-deleted or has
\* available = false at the time of the request answers 400, inserts no booking
\* and no attachment, mirrors nothing and publishes no event.
C28_NoBookingOfRetiredCar ==
  [][(/\ last'.op = "POST /bookings"
      /\ last'.tok # NoToken
      /\ UNCHANGED <<mongoUp, hostReq, cars>>
      /\ \E c \in cars : c.id = last'.arg /\ (c.deleted = 1 \/ c.available = 0))
    => (/\ last'.status = 400
        /\ last'.pub = NoEvent
        /\ UNCHANGED <<bookings, attachments, mbookings, sse>>)]_vars

\* C29: a valid POST /api/cars/host that arrives while another one is
\* suspended between its BEGIN TRANSACTION and its COMMIT succeeds as well:
\* it answers 201 and its car is in the primary store.
C29_HostCreationIndependent ==
  [][(/\ hostReq.pc # "idle"
      /\ hostReq' = hostReq
      /\ last'.op = "POST /cars/host"
      /\ last'.tok # NoToken)
    => (/\ last'.status = 201
        /\ \E c \in cars' \ cars : c.host_id = last'.tok.id)]_vars

\* ---------------------------------------------------------------------
\* ensureConnected taken step by step: each call that finds _ready false
\* builds a MongoClient and is suspended on connect(); the calls resume in
\* any order while the server comes and goes
\* ---------------------------------------------------------------------
notConn == <<dbVars, mcars, mbookings, musers, carsUpdatedAt, mongoUri, now, wrongCodes,
             attachments, hostReq, sse, messages>>

\* a call of ensureConnected up to its first await on the network
EnsureConnectedCall ==
  LET c == mconn.created + 1 IN
  IF mongoReady THEN
    \* if (_ready) return { ok: true, db: _db }
    /\ last' = Resp("ensureConnected", NoToken, NULL, 200, mconn.db, NoEvent)
    /\ UNCHANGED <<mconn, mongoReady, mongoUp, notConn>>
  ELSE IF ~mongoUri THEN
    /\ last' = Resp("ensureConnected", NoToken, NULL, 500, NULL, NoEvent)
    /\ UNCHANGED <<mconn, mongoReady, mongoUp, notConn>>
  ELSE
    \* _client = new MongoClient(uri, ..); await _client.connect()
    /\ c <= MaxClients
    /\ mconn' = [mconn EXCEPT !.created = c, !.client = c, !.pending = @ \cup {c}]
    /\ UNCHANGED <<last, mongoReady, mongoUp, notConn>>

\* connect() of client c resolves: _db = _client.db(); _ready = true
ConnectResolved(c) ==
  /\ c \in mconn.pending
  /\ mongoUp
  /\ mconn' = [mconn EXCEPT !.pending = @ \ {c}, !.connected = @ \cup {c},
                            !.db = mconn.client]
  /\ mongoReady' = TRUE
  /\ last' = Resp("ensureConnected", NoToken, NULL, 200, mconn.client, NoEvent)
  /\ UNCHANGED <<mongoUp, notConn>>

\* connect() of client c rejects: the catch records _error and returns
\* { ok: false }; _ready is left as it is
ConnectRejected(c) ==
  /\ c \in mconn.pending
  /\ ~mongoUp
  /\ mconn' = [mconn EXCEPT !.pending = @ \ {c}]
  /\ last' = Resp("ensureConnected", NoToken, NULL, 500, NULL, NoEvent)
  /\ UNCHANGED <<mongoReady, mongoUp, notConn>>

\* the server becomes reachable or unreachable
ServerFlip ==
  /\ mongoUp' = ~mongoUp
  /\ UNCHANGED <<mconn, mongoReady, last, notConn>>

InitConnect == Init /\ ~carsUpdatedAt

NextConnect ==
  \/ EnsureConnectedCall
  \/ \E c \in 1..MaxClients : ConnectResolved(c)
  \/ \E c \in 1..MaxClients : ConnectRejected(c)
  \/ ServerFlip

SpecConnect == InitConnect /\ [][NextConnect]_vars

\* C30: under any interleaving of calls of ensureConnected at most one client
\* is created and connected, and once a connection is established the cached
\* handle stays the one every later call gets.
C30_OneClientOneHandle ==
  /\ [](Cardinality(mconn.connected) <= 1)
  /\ [][mongoReady => mconn'.db = mconn.db]_vars

====
